---- MODULE Spec2Model ----
\* Asset grouper and slug router of the portfolio App (src/src/projectContent.js).
\*
\* Strings of the program are sequences of one-character strings, so that the
\* regular expressions, the case conversion and the percent coding of the
\* source can be computed character by character.  JavaScript's null is the
\* one-element sequence Null, which no program string equals.
EXTENDS Integers, Sequences, FiniteSets, TLC

VARIABLES
    photoLoaders,      \* import.meta.glob result: asset paths in enumeration order
    shoots,            \* useMemo result: the ordered projects
    digitalImages,     \* useMemo result: the digitals' loaders
    history,           \* window.history: the session's entries (paths)
    historyIndex,      \* position of the current entry; its path is window.location.pathname
    pathname,          \* useState: the stored path
    routeProjectSlug,  \* useMemo([pathname])
    selectedProject,   \* useMemo([shoots, routeProjectSlug]): index into shoots, 0 for null
    pendingSectionId,  \* useState
    timeoutId,         \* the pending-section effect's timer: the section it captured, or Null
    activeWorkIndex,   \* useState
    isMenuOpen,        \* useState
    lastNav,           \* history variable: the most recent navigation request
    scrollCmd,         \* the scroll call made by the most recent step, if any
    input,             \* pure-function runs: the argument drawn at the start
    value,             \* pure-function runs: the current value
    applied,           \* pure-function runs: the functions applied so far, in order
    slots,             \* LazyPhoto instances: props, state and the load effect's instance
    calls,             \* the loader() calls that have not settled, in call order
    probes,            \* resolveOrientation: what each project's probe gave so far
    workOrientations,  \* useState: project id -> orientation
    isMounted,         \* the orientation effect's flag: its cleanup has not run
    hasIntersectionObserver  \* typeof IntersectionObserver !== 'undefined'

vars == <<photoLoaders, shoots, digitalImages, history, historyIndex, pathname,
          routeProjectSlug, selectedProject, pendingSectionId, timeoutId, activeWorkIndex,
          isMenuOpen, lastNav, scrollCmd, input, value, applied, slots, calls, probes,
          workOrientations, isMounted, hasIntersectionObserver>>

routerVars == <<photoLoaders, shoots, digitalImages, history, historyIndex, pathname,
                routeProjectSlug, selectedProject, pendingSectionId, timeoutId,
                activeWorkIndex, isMenuOpen, lastNav, scrollCmd>>

callVars == <<input, value, applied>>

lazyVars == <<slots, calls, probes, workOrientations, isMounted, hasIntersectionObserver>>

-----------------------------------------------------------------------------
\* Bounds of the model.

\* Longest string drawn as the argument of a pure path function.
MaxStrLen == 4

\* Most functions applied in a row in a pure-function run.
MaxCalls == 3

\* Most entries of the browser's session history.
MaxHistory == 3

\* Most assets in an enumerated asset mapping.
MaxAssets == 3

\* Most assets in a mapping drawn from the files of one folder.
MaxFiles == 4

\* Most runs of the load effect of one LazyPhoto.
MaxLoads == 2

\* The slide indices a swiper reports lie in -MaxIndex..MaxIndex.
MaxIndex == 4

\* The slider's handlers run at most MaxSlides times in a run of the slider.
MaxSlides == 2

-----------------------------------------------------------------------------
\* Strings.

Null == <<"null">>

Digits == <<"0", "1", "2", "3", "4", "5", "6", "7", "8", "9">>

LowerLetters == <<"a", "b", "c", "d", "e", "f", "g", "h", "i", "j", "k", "l", "m",
                  "n", "o", "p", "q", "r", "s", "t", "u", "v", "w", "x", "y", "z">>

UpperLetters == <<"A", "B", "C", "D", "E", "F", "G", "H", "I", "J", "K", "L", "M",
                  "N", "O", "P", "Q", "R", "S", "T", "U", "V", "W", "X", "Y", "Z">>

Range(s) == {s[i] : i \in DOMAIN s}

IndexIn(table, c) == CHOOSE i \in DOMAIN table : table[i] = c

IsDigit(c) == c \in Range(Digits)

IsLower(c) == c \in Range(LowerLetters)

IsUpper(c) == c \in Range(UpperLetters)

DigitValue(c) == IndexIn(Digits, c) - 1

\* Number(text) for a string of decimal digits.
RECURSIVE NumberOf(_)
NumberOf(s) ==
    IF s = <<>> THEN 0
    ELSE 10 * NumberOf(SubSeq(s, 1, Len(s) - 1)) + DigitValue(s[Len(s)])

\* String.prototype.toLowerCase, one character.
LowerChar(c) == IF IsUpper(c) THEN LowerLetters[IndexIn(UpperLetters, c)] ELSE c

toLowerCase(s) == [i \in DOMAIN s |-> LowerChar(s[i])]

startsWith(s, prefix) ==
    /\ Len(s) >= Len(prefix)
    /\ SubSeq(s, 1, Len(prefix)) = prefix

\* All strings over the characters cs of length at most n.
RECURSIVE StringsUpTo(_, _)
StringsUpTo(cs, n) ==
    IF n = 0 THEN {<<>>}
    ELSE LET shorter == StringsUpTo(cs, n - 1)
         IN  shorter \cup {Append(s, c) : s \in shorter, c \in cs}

-----------------------------------------------------------------------------
\* Path functions (src/src/projectContent.js:65-110).

PROJECT_PATH_PREFIX == <<"/", "p", "o", "r", "t", "f", "o", "l", "i", "o", "/">>

RootPath == <<"/">>

\* A slip of the same shape: /\/$/ drops one trailing slash only.
StripLastSlash(s) ==
    IF s # <<>> /\ s[Len(s)] = "/" THEN SubSeq(s, 1, Len(s) - 1) ELSE s

\* value.replace(/\/+$/, ""): drop every trailing slash.
RECURSIVE StripTrailingSlashes(_)
StripTrailingSlashes(s) ==
    IF s # <<>> /\ s[Len(s)] = "/"
    THEN StripTrailingSlashes(SubSeq(s, 1, Len(s) - 1))
    ELSE s

\* The optional trailing slash of the route pattern, \/?$ .
StripOneTrailingSlash(s) ==
    IF s # <<>> /\ s[Len(s)] = "/" THEN SubSeq(s, 1, Len(s) - 1) ELSE s

normalizePathname(v) ==
    IF v = Null \/ v = <<>> \/ v = RootPath
    THEN RootPath
    ELSE LET withLeadingSlash == IF startsWith(v, <<"/">>) THEN v ELSE <<"/">> \o v
             stripped == StripTrailingSlashes(withLeadingSlash)
         IN  IF stripped = <<>> THEN RootPath ELSE stripped

\* Printable ASCII, code 32 (space) to 126 (~); the double quote, the
\* backslash and the backtick are written as the tokens "quote", "backslash"
\* and "backtick".
Ascii == <<" ", "!", "quote", "#", "$", "%", "&", "'", "(", ")", "*", "+", ",", "-", ".", "/",
           "0", "1", "2", "3", "4", "5", "6", "7", "8", "9", ":", ";", "<", "=", ">", "?",
           "@", "A", "B", "C", "D", "E", "F", "G", "H", "I", "J", "K", "L", "M", "N", "O",
           "P", "Q", "R", "S", "T", "U", "V", "W", "X", "Y", "Z", "[", "backslash", "]", "^", "_",
           "backtick", "a", "b", "c", "d", "e", "f", "g", "h", "i", "j", "k", "l", "m", "n", "o",
           "p", "q", "r", "s", "t", "u", "v", "w", "x", "y", "z", "{", "|", "}", "~">>

CharCode(c) == IndexIn(Ascii, c) + 31

\* The character of a code below 128; the control characters are one token.
CharOfCode(b) == IF b >= 32 /\ b <= 126 THEN Ascii[b - 31] ELSE "ctl"

HexDigits == <<"0", "1", "2", "3", "4", "5", "6", "7", "8", "9", "A", "B", "C", "D", "E", "F">>

IsHex(c) == c \in Range(HexDigits) \/ c \in {"a", "b", "c", "d", "e", "f"}

HexValue(c) ==
    IF c \in Range(HexDigits) THEN IndexIn(HexDigits, c) - 1
    ELSE IndexIn(<<"a", "b", "c", "d", "e", "f">>, c) + 9

URIError == <<"URIError">>

\* The %XX escape at the head of s, as a byte, or -1 when s does not start with one.
EscapeByte(s) ==
    IF Len(s) >= 3 /\ s[1] = "%" /\ IsHex(s[2]) /\ IsHex(s[3])
    THEN 16 * HexValue(s[2]) + HexValue(s[3])
    ELSE -1

\* Continuation bytes a UTF-8 lead byte asks for, or -1 when it is no lead byte.
ContinuationCount(b) ==
    IF b >= 194 /\ b <= 223 THEN 1
    ELSE IF b >= 224 /\ b <= 239 THEN 2
    ELSE IF b >= 240 /\ b <= 244 THEN 3
    ELSE -1

\* s starts with n escapes %80..%BF.
RECURSIVE HasContinuations(_, _)
HasContinuations(s, n) ==
    IF n = 0 THEN TRUE
    ELSE /\ EscapeByte(s) >= 128
         /\ EscapeByte(s) <= 191
         /\ HasContinuations(SubSeq(s, 4, Len(s)), n - 1)

\* decodeURIComponent: the decoded string, or URIError where the source throws.
\* A well-formed multi-byte sequence decodes to the one token "U+".
RECURSIVE decodeURIComponent(_)
decodeURIComponent(s) ==
    IF s = <<>> THEN <<>>
    ELSE IF s[1] # "%"
    THEN LET rest == decodeURIComponent(Tail(s))
         IN  IF rest = URIError THEN URIError ELSE <<s[1]>> \o rest
    ELSE LET b == EscapeByte(s)
             n == IF b < 128 THEN 0 ELSE ContinuationCount(b)
         IN  IF b < 0 \/ n < 0 \/ ~HasContinuations(SubSeq(s, 4, Len(s)), n)
             THEN URIError
             ELSE LET rest == decodeURIComponent(SubSeq(s, 4 + 3 * n, Len(s)))
                      c == IF b < 128 THEN CharOfCode(b) ELSE "U+"
                  IN  IF rest = URIError THEN URIError ELSE <<c>> \o rest

\* The characters encodeURIComponent leaves alone.
IsUnreserved(c) ==
    IsLower(c) \/ IsUpper(c) \/ IsDigit(c) \/ c \in {"-", "_", ".", "!", "~", "*", "'", "(", ")"}

PercentEncode(c) ==
    <<"%", HexDigits[(CharCode(c) \div 16) + 1], HexDigits[(CharCode(c) % 16) + 1]>>

RECURSIVE encodeURIComponent(_)
encodeURIComponent(s) ==
    IF s = <<>> THEN <<>>
    ELSE (IF IsUnreserved(s[1]) THEN <<s[1]>> ELSE PercentEncode(s[1]))
         \o encodeURIComponent(Tail(s))

\* pathname.match(/^\/portfolio\/([^/]+)\/?$/): capture group 1, or Null.
PortfolioMatch(p) ==
    IF ~startsWith(p, PROJECT_PATH_PREFIX) THEN Null
    ELSE LET rest == SubSeq(p, Len(PROJECT_PATH_PREFIX) + 1, Len(p))
             segment == StripOneTrailingSlash(rest)
         IN  IF segment = <<>> \/ "/" \in Range(segment) THEN Null ELSE segment

\* A slip of the same shape: no catch, so the URIError escapes.
SlugWithoutCatch(p) ==
    LET match == PortfolioMatch(p)
    IN  IF match = Null THEN Null
        ELSE LET decoded == decodeURIComponent(match)
             IN  IF decoded = URIError THEN URIError ELSE toLowerCase(decoded)

\* Lines 96-108.
getProjectSlugFromPathname(p) ==
    LET match == PortfolioMatch(p)
    IN  IF match = Null THEN Null
        ELSE LET decoded == decodeURIComponent(match)
             IN  IF decoded = URIError THEN toLowerCase(match) ELSE toLowerCase(decoded)

getProjectPath(projectSlug) == PROJECT_PATH_PREFIX \o encodeURIComponent(projectSlug)

-----------------------------------------------------------------------------
\* Route slug of a folder suffix (src/src/projectContent.js:80-85).

\* .replace(/&/g, " and ")
RECURSIVE ReplaceAmpersand(_)
ReplaceAmpersand(s) ==
    IF s = <<>> THEN <<>>
    ELSE (IF s[1] = "&" THEN <<" ", "a", "n", "d", " ">> ELSE <<s[1]>>)
         \o ReplaceAmpersand(Tail(s))

IsSlugChar(c) == IsLower(c) \/ IsDigit(c)

\* A slip of the same shape: /[^a-z0-9]/g, every character becomes a hyphen.
ReplaceEach(s) == [i \in DOMAIN s |-> IF IsSlugChar(s[i]) THEN s[i] ELSE "-"]

\* .replace(/[^a-z0-9]+/g, "-"): each maximal run becomes one hyphen.
RECURSIVE CollapseRuns(_)
CollapseRuns(s) ==
    IF s = <<>> THEN <<>>
    ELSE IF IsSlugChar(s[1]) THEN <<s[1]>> \o CollapseRuns(Tail(s))
    ELSE IF Len(s) >= 2 /\ ~IsSlugChar(s[2]) THEN CollapseRuns(Tail(s))
    ELSE <<"-">> \o CollapseRuns(Tail(s))

RECURSIVE StripLeadingHyphens(_)
StripLeadingHyphens(s) ==
    IF s # <<>> /\ s[1] = "-" THEN StripLeadingHyphens(Tail(s)) ELSE s

RECURSIVE StripTrailingHyphens(_)
StripTrailingHyphens(s) ==
    IF s # <<>> /\ s[Len(s)] = "-"
    THEN StripTrailingHyphens(SubSeq(s, 1, Len(s) - 1))
    ELSE s

\* .replace(/^-+|-+$/g, "")
TrimHyphens(s) == StripTrailingHyphens(StripLeadingHyphens(s))

toRouteSlug(v) == TrimHyphens(CollapseRuns(ReplaceAmpersand(toLowerCase(v))))

-----------------------------------------------------------------------------
\* Asset grouper (src/src/projectContent.js:61-64, 112-121, 203-297).
\* An asset path is the sequence of its segments, path.split("/").

PHOTO_ROOT_PREFIX == << <<".">>, <<"a", "s", "s", "e", "t", "s">>, <<"p", "h", "o", "t", "o", "s">> >>

HERO_PATH ==
    PHOTO_ROOT_PREFIX
    \o << <<"A", ".", "W", "a", "c", "h", "t", "e", "n", "d", "o", "n", "k", "-", "1", "7",
            ".", "J", "P", "G">> >>

\* SHOOT_FOLDER_RE = /^(\d{4})-(\d{2})-(\d{2})-(.+)$/ : does the name match.
SHOOT_FOLDER_RE(name) ==
    /\ Len(name) >= 12
    /\ \A i \in {1, 2, 3, 4, 6, 7, 9, 10} : IsDigit(name[i])
    /\ \A i \in {5, 8, 11} : name[i] = "-"

\* The capture groups of a matching name.
FolderYear(name) == SubSeq(name, 1, 4)

FolderMonth(name) == SubSeq(name, 6, 7)

FolderDay(name) == SubSeq(name, 9, 10)

FolderSuffix(name) == SubSeq(name, 12, Len(name))

IsLeapYear(y) == (y % 4 = 0 /\ y % 100 # 0) \/ y % 400 = 0

\* Days from 1970-01-01 to January 1st of year y (ECMAScript DayFromYear).
DayFromYear(y) ==
    365 * (y - 1970) + ((y - 1969) \div 4) - ((y - 1901) \div 100) + ((y - 1601) \div 400)

MonthLengths(y) ==
    <<31, IF IsLeapYear(y) THEN 29 ELSE 28, 31, 30, 31, 30, 31, 31, 30, 31, 30, 31>>

RECURSIVE DaysBeforeMonth(_, _)
DaysBeforeMonth(y, m) ==
    IF m = 0 THEN 0 ELSE DaysBeforeMonth(y, m - 1) + MonthLengths(y)[m]

\* Date.UTC(year, monthIndex, day) in days instead of milliseconds (the factor
\* 86400000 keeps every comparison): years 0..99 mean 1900..1999, and a month
\* index or a day outside the calendar rolls over into the neighbouring
\* months and years.
DateUTC(year, monthIndex, day) ==
    LET fullYear == IF year >= 0 /\ year <= 99 THEN 1900 + year ELSE year
        y == fullYear + (monthIndex \div 12)
        m == monthIndex % 12
    IN  DayFromYear(y) + DaysBeforeMonth(y, m) + day - 1

NEGATIVE_INFINITY == -100000000

getFolderDateValue(folderName) ==
    IF ~SHOOT_FOLDER_RE(folderName) THEN NEGATIVE_INFINITY
    ELSE DateUTC(NumberOf(FolderYear(folderName)),
                 NumberOf(FolderMonth(folderName)) - 1,
                 NumberOf(FolderDay(folderName)))

\* Primary collation order of the printable ASCII characters (root locale):
\* space, punctuation, symbols, digits, letters; a letter and its capital have
\* one primary weight.
CollationOrder ==
    <<" ", "_", "-", ",", ";", ":", "!", "?", ".", "'", "quote", "(", ")", "[", "]", "{",
      "}", "@", "*", "/", "backslash", "&", "#", "%", "backtick", "^", "+", "<", "=", ">",
      "|", "~", "$", "0", "1", "2", "3", "4", "5", "6", "7", "8", "9",
      "a", "b", "c", "d", "e", "f", "g", "h", "i", "j", "k", "l", "m",
      "n", "o", "p", "q", "r", "s", "t", "u", "v", "w", "x", "y", "z">>

PrimaryWeight(c) == IndexIn(CollationOrder, LowerChar(c))

\* a.localeCompare(b, undefined, { sensitivity: "base" }): -1, 0 or 1.
RECURSIVE localeCompareBase(_, _)
localeCompareBase(a, b) ==
    IF a = <<>> /\ b = <<>> THEN 0
    ELSE IF a = <<>> THEN -1
    ELSE IF b = <<>> THEN 1
    ELSE IF PrimaryWeight(a[1]) < PrimaryWeight(b[1]) THEN -1
    ELSE IF PrimaryWeight(a[1]) > PrimaryWeight(b[1]) THEN 1
    ELSE localeCompareBase(Tail(a), Tail(b))

\* The comparator of the folder sort, lines 239-247.
CompareFolders(folderA, folderB) ==
    LET dateDiff == getFolderDateValue(folderB) - getFolderDateValue(folderA)
    IN  IF dateDiff # 0 THEN dateDiff ELSE localeCompareBase(folderB, folderA)

\* Array.prototype.sort with CompareFolders on [folderName, files] entries: a
\* stable sort, so an entry goes before the first one it compares below.
RECURSIVE InsertEntry(_, _)
InsertEntry(sorted, e) ==
    IF sorted = <<>> THEN <<e>>
    ELSE IF CompareFolders(e.folderName, sorted[1].folderName) < 0 THEN <<e>> \o sorted
    ELSE <<sorted[1]>> \o InsertEntry(Tail(sorted), e)

RECURSIVE SortEntries(_)
SortEntries(entries) ==
    IF entries = <<>> THEN <<>>
    ELSE InsertEntry(SortEntries(SubSeq(entries, 1, Len(entries) - 1)), entries[Len(entries)])

\* The scan of photoLoaders, lines 207-236: the [folderName, files] entries of
\* shootsByFolder in insertion order.
\* A slip of the same shape: no shootsByFolder.has test, a new entry per asset.
AddNewFolder(entries, folderName, path) ==
    Append(entries, [folderName |-> folderName, files |-> <<path>>])

RECURSIVE AddToFolder(_, _, _)
AddToFolder(entries, folderName, path) ==
    IF entries = <<>> THEN <<[folderName |-> folderName, files |-> <<path>>]>>
    ELSE IF entries[1].folderName = folderName
    THEN <<[entries[1] EXCEPT !.files = Append(@, path)]>> \o Tail(entries)
    ELSE <<entries[1]>> \o AddToFolder(Tail(entries), folderName, path)

\* A slip of the same shape: the folder name is not tested against
\* SHOOT_FOLDER_RE.
IsFolderAsset(path) ==
    /\ path # HERO_PATH
    /\ startsWith(path, PHOTO_ROOT_PREFIX)
    /\ Len(path) - Len(PHOTO_ROOT_PREFIX) >= 2
    /\ toLowerCase(path[Len(PHOTO_ROOT_PREFIX) + 1]) # <<"d", "i", "g", "i", "t", "a", "l", "s">>

\* The scan's test for a shoot's bucket, lines 208-229.
IsShootAsset(path) ==
    /\ path # HERO_PATH
    /\ startsWith(path, PHOTO_ROOT_PREFIX)
    /\ Len(path) - Len(PHOTO_ROOT_PREFIX) >= 2
    /\ toLowerCase(path[Len(PHOTO_ROOT_PREFIX) + 1]) # <<"d", "i", "g", "i", "t", "a", "l", "s">>
    /\ SHOOT_FOLDER_RE(path[Len(PHOTO_ROOT_PREFIX) + 1])

RECURSIVE shootsByFolder(_)
shootsByFolder(loaders) ==
    IF loaders = <<>> THEN <<>>
    ELSE LET before == shootsByFolder(SubSeq(loaders, 1, Len(loaders) - 1))
             path == loaders[Len(loaders)]
         IN  IF IsShootAsset(path)
             THEN AddToFolder(before, path[Len(PHOTO_ROOT_PREFIX) + 1], path)
             ELSE before

\* The last path segment, parts[parts.length - 1], line 220.
FileNameOf(path) == path[Len(path)]

\* The first segment under the photo root, parts[0], line 219.
FolderNameOf(path) == path[Len(PHOTO_ROOT_PREFIX) + 1]

DigitalsFolder == <<"d", "i", "g", "i", "t", "a", "l", "s">>

\* The scan's test for the digitals bucket, lines 208-225.
IsDigitalsAsset(path) ==
    /\ path # HERO_PATH
    /\ startsWith(path, PHOTO_ROOT_PREFIX)
    /\ Len(path) - Len(PHOTO_ROOT_PREFIX) >= 2
    /\ toLowerCase(FolderNameOf(path)) = DigitalsFolder

\* The digitals bucket after the scan, in enumeration order; a loader is
\* named by the path it belongs to.
digitals(loaders) == SelectSeq(loaders, IsDigitalsAsset)

\* coverRegex = /^cover\.(jpg|jpeg|png)$/i
coverRegex(fileName) ==
    toLowerCase(fileName) \in { <<"c", "o", "v", "e", "r", ".", "j", "p", "g">>,
                                <<"c", "o", "v", "e", "r", ".", "j", "p", "e", "g">>,
                                <<"c", "o", "v", "e", "r", ".", "p", "n", "g">> }

\* Array.prototype.sort by a.fileName.localeCompare(b.fileName, undefined,
\* { sensitivity: "base" }), lines 249-251 and 289: a stable sort.
RECURSIVE InsertFile(_, _)
InsertFile(sorted, file) ==
    IF sorted = <<>> THEN <<file>>
    ELSE IF localeCompareBase(FileNameOf(file), FileNameOf(sorted[1])) < 0
    THEN <<file>> \o sorted
    ELSE <<sorted[1]>> \o InsertFile(Tail(sorted), file)

RECURSIVE SortFiles(_)
SortFiles(files) ==
    IF files = <<>> THEN <<>>
    ELSE InsertFile(SortFiles(SubSeq(files, 1, Len(files) - 1)), files[Len(files)])

\* A slip of the same shape: the first sorted file, whatever its name.
FirstSortedFile(sortedFiles) == sortedFiles[1]

\* sortedFiles.find((file) => coverRegex.test(file.fileName)) || sortedFiles[0],
\* line 257.
CoverFile(sortedFiles) ==
    IF \E i \in DOMAIN sortedFiles : coverRegex(FileNameOf(sortedFiles[i]))
    THEN sortedFiles[CHOOSE i \in DOMAIN sortedFiles :
                         /\ coverRegex(FileNameOf(sortedFiles[i]))
                         /\ \A j \in 1..(i - 1) : ~coverRegex(FileNameOf(sortedFiles[j]))]
    ELSE sortedFiles[1]

\* A slip of the same shape: the cover is told apart by its file name.
DiffersByName(file, coverFile) == FileNameOf(file) # FileNameOf(coverFile)

\* The gallery's filter, file.path !== coverFile.path, line 259.
NotTheCover(file, coverFile) == file # coverFile

\* A slip of the same shape: the list is not cut.
KeepAll(loaders) == loaders

\* .slice(0, 3), line 291.
FirstThree(loaders) == SubSeq(loaders, 1, IF Len(loaders) < 3 THEN Len(loaders) ELSE 3)

\* sortedDigitals, lines 288-291.
sortedDigitals(loaders) == FirstThree(SortFiles(digitals(loaders)))

\* String.prototype.toUpperCase, one character.
UpperChar(c) == IF IsLower(c) THEN UpperLetters[IndexIn(LowerLetters, c)] ELSE c

\* The maximal runs, from position i on, of the characters of s that mask
\* marks: what split on the unmarked runs followed by filter(Boolean) keeps.
RECURSIVE WordsFrom(_, _, _)
WordsFrom(s, mask, i) ==
    IF i > Len(s) THEN <<>>
    ELSE IF ~mask[i] THEN WordsFrom(s, mask, i + 1)
    ELSE LET j == CHOOSE k \in i..Len(s) :
                      /\ \A m \in i..k : mask[m]
                      /\ k = Len(s) \/ ~mask[k + 1]
         IN  <<SubSeq(s, i, j)>> \o WordsFrom(s, mask, j + 1)

\* Array.prototype.join
RECURSIVE Join(_, _)
Join(words, separator) ==
    IF words = <<>> THEN <<>>
    ELSE IF Len(words) = 1 THEN words[1]
    ELSE words[1] \o separator \o Join(Tail(words), separator)

\* [\s_-]
IsWordSeparator(c) == c \in {" ", "_", "-"}

\* word.charAt(0).toUpperCase() + word.slice(1)
Capitalize(word) == <<UpperChar(word[1])>> \o Tail(word)

\* Lines 71-76.
toTitleCase(v) ==
    LET words == WordsFrom(v, [i \in DOMAIN v |-> ~IsWordSeparator(v[i])], 1)
    IN  Join([i \in DOMAIN words |-> Capitalize(words[i])], <<" ">>)

\* JavaScript's undefined, which no program string equals.
Undefined == <<"undefined">>

\* Lines 4-8; the record has no subtext.
DEFAULT_PROJECT_CONTENT ==
    [ header |->
        <<"C", "r", "e", "a", "t", "i", "v", "e", " ", "S", "h", "o", "o", "t">>,
      category |->
        <<"C", "r", "e", "a", "t", "i", "v", "e", " ", "S", "h", "o", "o", "t">>,
      subtext |-> Undefined,
      description |->
        <<"A", "d", "d", " ", "a", " ", "c", "u", "s", "t", "o", "m", " ", "d", "e", "s", "c",
          "r", "i", "p", "t", "i", "o", "n", " ", "f", "o", "r", " ", "t", "h", "i", "s", " ",
          "p", "r", "o", "j", "e", "c", "t", " ", "i", "n", " ", "s", "r", "c", "/", "p", "r",
          "o", "j", "e", "c", "t", "C", "o", "n", "t", "e", "n", "t", ".", "j", "s", ".">> ]

\* The keys of PROJECT_CONTENT, lines 10-47, in the order written.
PROJECT_CONTENT_KEYS ==
    << <<"e", "d", "i", "t", "o", "r", "i", "a", "l">>,
       <<"c", "o", "m", "m", "e", "r", "c", "i", "a", "l">>,
       <<"u", "r", "b", "a", "n">>,
       <<"l", "i", "f", "e", "s", "t", "y", "l", "e">>,
       <<"h", "i", "g", "h", "-", "f", "a", "s", "h", "i", "o", "n">>,
       <<"b", "e", "a", "u", "t", "y", "-", "a", "n", "d", "-", "p", "o", "r", "t", "r", "a",
         "i", "t", "s">> >>

\* The entries of PROJECT_CONTENT, lines 10-47, in the order of the keys; no
\* entry has a subtext.
PROJECT_CONTENT_ENTRIES ==
    << [ title |->
            <<"E", "d", "i", "t", "o", "r", "i", "a", "l">>,
         header |->
            <<"C", "r", "e", "a", "t", "i", "v", "e", " ", "S", "h", "o", "o", "t">>,
         category |->
            <<"C", "r", "e", "a", "t", "i", "v", "e", " ", "S", "h", "o", "o", "t">>,
         subtext |-> Undefined,
         description |->
            <<"A", " ", "c", "i", "n", "e", "m", "a", "t", "i", "c", " ", "e", "x", "p", "l",
              "o", "r", "a", "t", "i", "o", "n", " ", "o", "f", " ", "s", "t", "y", "l", "i",
              "n", "g", ",", " ", "f", "o", "r", "m", ",", " ", "a", "n", "d", " ", "a", "t",
              "m", "o", "s", "p", "h", "e", "r", "e", ".">> ],
       [ title |->
            <<"C", "o", "m", "m", "e", "r", "c", "i", "a", "l">>,
         header |->
            <<"C", "o", "m", "m", "e", "r", "c", "i", "a", "l", " ", "S", "h", "o", "o", "t">>,
         category |->
            <<"C", "o", "m", "m", "e", "r", "c", "i", "a", "l", " ", "S", "h", "o", "o", "t">>,
         subtext |-> Undefined,
         description |->
            <<"P", "o", "l", "i", "s", "h", "e", "d", " ", "c", "a", "m", "p", "a", "i", "g",
              "n", " ", "i", "m", "a", "g", "e", "r", "y", " ", "b", "u", "i", "l", "t", " ",
              "f", "o", "r", " ", "p", "r", "o", "d", "u", "c", "t", "-", "f", "o", "r", "w",
              "a", "r", "d", " ", "b", "r", "a", "n", "d", " ", "n", "a", "r", "r", "a", "t",
              "i", "v", "e", "s", ".">> ],
       [ title |->
            <<"U", "r", "b", "a", "n">>,
         header |->
            <<"U", "r", "b", "a", "n", " ", "S", "h", "o", "o", "t">>,
         category |->
            <<"U", "r", "b", "a", "n", " ", "S", "h", "o", "o", "t">>,
         subtext |-> Undefined,
         description |->
            <<"L", "o", "c", "a", "t", "i", "o", "n", "-", "b", "a", "s", "e", "d", " ", "p",
              "o", "r", "t", "r", "a", "i", "t", " ", "w", "o", "r", "k", " ", "b", "a", "l",
              "a", "n", "c", "i", "n", "g", " ", "r", "a", "w", " ", "s", "t", "r", "u", "c",
              "t", "u", "r", "e", " ", "a", "n", "d", " ", "m", "o", "d", "e", "r", "n", " ",
              "s", "t", "y", "l", "i", "n", "g", ".">> ],
       [ title |->
            <<"L", "i", "f", "e", "s", "t", "y", "l", "e">>,
         header |->
            <<"L", "i", "f", "e", "s", "t", "y", "l", "e", " ", "S", "h", "o", "o", "t">>,
         category |->
            <<"L", "i", "f", "e", "s", "t", "y", "l", "e", " ", "S", "h", "o", "o", "t">>,
         subtext |-> Undefined,
         description |->
            <<"N", "a", "t", "u", "r", "a", "l", " ", "i", "n", "t", "e", "r", "a", "c", "t",
              "i", "o", "n", " ", "a", "n", "d", " ", "c", "a", "n", "d", "i", "d", " ", "m",
              "o", "t", "i", "o", "n", " ", "c", "e", "n", "t", "e", "r", "e", "d", " ", "o",
              "n", " ", "a", "u", "t", "h", "e", "n", "t", "i", "c", "i", "t", "y", ",", " ",
              "w", "a", "r", "m", "t", "h", ",", " ", "a", "n", "d", " ", "e", "a", "s", "e",
              ".">> ],
       [ title |->
            <<"H", "i", "g", "h", " ", "F", "a", "s", "h", "i", "o", "n">>,
         header |->
            <<"H", "i", "g", "h", " ", "F", "a", "s", "h", "i", "o", "n", " ", "S", "h", "o",
              "o", "t">>,
         category |->
            <<"H", "i", "g", "h", " ", "F", "a", "s", "h", "i", "o", "n", " ", "S", "h", "o",
              "o", "t">>,
         subtext |-> Undefined,
         description |->
            <<"A", "n", " ", "e", "x", "p", "l", "o", "r", "a", "t", "i", "o", "n", " ", "o",
              "f", " ", "c", "l", "e", "a", "n", " ", "s", "i", "l", "h", "o", "u", "e", "t",
              "t", "e", "s", " ", "a", "n", "d", " ", "i", "n", "t", "e", "n", "t", "i", "o",
              "n", "a", "l", " ", "m", "o", "v", "e", "m", "e", "n", "t", ".">> ],
       [ title |->
            <<"B", "e", "a", "u", "t", "y", " ", "&", " ", "P", "o", "r", "t", "r", "a", "i",
              "t", "s">>,
         header |->
            <<"B", "e", "a", "u", "t", "y", " ", "S", "h", "o", "o", "t">>,
         category |->
            <<"B", "e", "a", "u", "t", "y", " ", "S", "h", "o", "o", "t">>,
         subtext |-> Undefined,
         description |->
            <<"C", "l", "o", "s", "e", " ", "f", "r", "a", "m", "i", "n", "g", " ", "a", "n",
              "d", " ", "s", "o", "f", "t", " ", "t", "o", "n", "a", "l", " ", "d", "e", "t",
              "a", "i", "l", " ", "c", "e", "n", "t", "e", "r", "e", "d", " ", "o", "n", " ",
              "e", "x", "p", "r", "e", "s", "s", "i", "o", "n", ",", " ", "s", "k", "i", "n",
              ",", " ", "a", "n", "d", " ", "s", "h", "a", "p", "e", ".">> ] >>

\* An object without title, header, category, subtext and description: {}.
EmptyContent ==
    [title |-> Undefined, header |-> Undefined, category |-> Undefined,
     subtext |-> Undefined, description |-> Undefined]

\* A slip of the same shape: the table is never consulted.
NoProjectContent(routeSlug) == EmptyContent

\* PROJECT_CONTENT[routeSlug] ?? {}, line 266.  A routeSlug that names a
\* property inherited from Object.prototype ("constructor") yields an object
\* without these five fields, which reads like {}.
ProjectContentFor(routeSlug) ==
    IF \E k \in DOMAIN PROJECT_CONTENT_KEYS : PROJECT_CONTENT_KEYS[k] = routeSlug
    THEN PROJECT_CONTENT_ENTRIES[CHOOSE k \in DOMAIN PROJECT_CONTENT_KEYS :
                                     PROJECT_CONTENT_KEYS[k] = routeSlug]
    ELSE EmptyContent

\* a ?? b
Coalesce(a, b) == IF a = Undefined \/ a = Null THEN b ELSE a

\* One entry of builtShoots, lines 248-285.  A loader is named by the path it
\* belongs to.
BuildShoot(entry) ==
    LET sortedFiles == SortFiles(entry.files)
        coverFile == CoverFile(sortedFiles)
        gallery == SelectSeq(sortedFiles, LAMBDA file : NotTheCover(file, coverFile))
        backgroundImage == IF gallery # <<>> THEN gallery[1] ELSE coverFile
        folderSlug == IF SHOOT_FOLDER_RE(entry.folderName)
                      THEN FolderSuffix(entry.folderName)
                      ELSE entry.folderName
        routeSlug == toRouteSlug(folderSlug)
        projectContent == ProjectContentFor(routeSlug)
        title == Coalesce(projectContent.title, toTitleCase(folderSlug))
        category == Coalesce(projectContent.category, DEFAULT_PROJECT_CONTENT.category)
        header == Coalesce(projectContent.header,
                           Coalesce(category, DEFAULT_PROJECT_CONTENT.header))
        subtext == Coalesce(projectContent.subtext, DEFAULT_PROJECT_CONTENT.subtext)
        description == Coalesce(projectContent.description,
                                DEFAULT_PROJECT_CONTENT.description)
    IN  [ id |-> entry.folderName,
          routeSlug |-> routeSlug,
          title |-> title,
          header |-> header,
          subtext |-> subtext,
          category |-> category,
          description |-> description,
          image |-> coverFile,
          backgroundImage |-> backgroundImage,
          gallery |-> gallery ]

\* builtShoots, lines 238-286.
builtShoots(loaders) ==
    LET sorted == SortEntries(shootsByFolder(loaders))
        kept == SelectSeq(sorted, LAMBDA e : Len(e.files) # 0)
    IN  [i \in DOMAIN kept |-> BuildShoot(kept[i])]

-----------------------------------------------------------------------------
\* Slug router: the App component's routing state (src/src/projectContent.js:191-508).

SectionIds == {<<"work">>, <<"contact">>}

NoScroll == [by |-> "none", target |-> Null]

\* window.location.pathname: the path of the current history entry.
windowLocationPathname == history[historyIndex]

\* Line 299.
isProjectRoute == startsWith(pathname, PROJECT_PATH_PREFIX)

\* A slip of the same shape: the last match (findLast).
ArrayFindLast(items, slug) ==
    IF \E i \in DOMAIN items : items[i].routeSlug = slug
    THEN CHOOSE i \in DOMAIN items :
             /\ items[i].routeSlug = slug
             /\ \A j \in (i + 1)..Len(items) : items[j].routeSlug # slug
    ELSE 0

\* shoots.find((item) => item.routeSlug === slug) ?? null, as an index into
\* shoots (0 for null): the first match.
ArrayFind(items, slug) ==
    IF \E i \in DOMAIN items : items[i].routeSlug = slug
    THEN CHOOSE i \in DOMAIN items :
             /\ items[i].routeSlug = slug
             /\ \A j \in 1..(i - 1) : items[j].routeSlug # slug
    ELSE 0

\* The body of the selectedProject memo, lines 302-306; !slug holds of null and "".
ComputeSelectedProject(items, slug) ==
    IF slug = Null \/ slug = <<>> THEN 0 ELSE ArrayFind(items, slug)

\* useMemo(() => getProjectSlugFromPathname(pathname), [pathname]), line 300:
\* recomputed when the dependency changed, else the cached value.
RouteProjectSlugMemo(nextPathname) ==
    IF nextPathname = pathname
    THEN routeProjectSlug
    ELSE getProjectSlugFromPathname(nextPathname)

\* A slip of the same shape: an empty dependency list, so the value computed
\* at the first render is kept for ever.
SelectedProjectMemoNoDeps(nextSlug) == selectedProject

\* useMemo(..., [shoots, routeProjectSlug]), lines 301-307; shoots never changes.
SelectedProjectMemo(nextSlug) ==
    IF nextSlug = routeProjectSlug
    THEN selectedProject
    ELSE ComputeSelectedProject(shoots, nextSlug)

\* A slip of the same shape: the effect never schedules the timer.
NeverSchedules(nextPathname, nextPending, liveTimer) == Null

\* The pending-section effect, lines 318-334, after a render with the given
\* state.  liveTimer is the timer still scheduled by the previous run.  When a
\* dependency changed the cleanup clears that timer and the effect runs again.
PendingSectionEffect(nextPathname, nextPending, liveTimer) ==
    IF nextPathname = pathname /\ nextPending = pendingSectionId
    THEN liveTimer
    ELSE IF nextPending = Null \/ nextPathname # RootPath
    THEN Null
    ELSE nextPending

\* A slip of the same shape: the view is chosen by the route pattern instead
\* of the path prefix.
ViewByMatch(path, selected) ==
    IF PortfolioMatch(path) = Null THEN "main"
    ELSE IF selected # 0 THEN "project"
    ELSE "notFound"

\* The view chosen at lines 567-963: the main page, a project's detail page
\* or the "Project Not Found" page.
ViewFor(path, selected) ==
    IF ~startsWith(path, PROJECT_PATH_PREFIX) THEN "main"
    ELSE IF selected # 0 THEN "project"
    ELSE "notFound"

RouteView == ViewFor(pathname, selectedProject)

\* The render that follows a handler's state updates, and its effects.
Render(nextPathname, nextPending, liveTimer) ==
    LET nextSlug == RouteProjectSlugMemo(nextPathname)
    IN  /\ pathname' = nextPathname
        /\ pendingSectionId' = nextPending
        /\ routeProjectSlug' = nextSlug
        /\ selectedProject' = SelectedProjectMemo(nextSlug)
        /\ timeoutId' = PendingSectionEffect(nextPathname, nextPending, liveTimer)

\* A slip of the same shape: the history is never written.
NeverWrites(nextPath) == FALSE

\* A slip of the same shape: the history is written on every call.
AlwaysWrites(nextPath) == TRUE

\* navigateTo writes the history when the normalized paths differ, lines 416-419.
WritesHistory(nextPath) ==
    normalizePathname(windowLocationPathname) # normalizePathname(nextPath)

\* The session history has room for what navigateTo(nextPath) pushes.
HistoryHasRoom(nextPath) == WritesHistory(nextPath) => historyIndex < MaxHistory

\* navigateTo, lines 411-422: the history write; the caller renders the path.
navigateTo(nextPath, replace) ==
    LET normalizedPath == normalizePathname(nextPath)
    IN  IF ~WritesHistory(nextPath)
        THEN UNCHANGED <<history, historyIndex>>
        ELSE IF replace
        THEN /\ history' = [history EXCEPT ![historyIndex] = normalizedPath]
             /\ UNCHANGED historyIndex
        ELSE /\ history' = Append(SubSeq(history, 1, historyIndex), normalizedPath)
             /\ historyIndex' = historyIndex + 1

\* Lines 424-429.
goHome ==
    /\ HistoryHasRoom(RootPath)
    /\ navigateTo(RootPath, FALSE)
    /\ Render(normalizePathname(RootPath), Null, timeoutId)
    /\ isMenuOpen' = FALSE
    /\ scrollCmd' = [by |-> "goHome", target |-> <<"top">>]
    /\ lastNav' = [kind |-> "goHome", section |-> Null]
    /\ UNCHANGED <<photoLoaders, shoots, activeWorkIndex>>

\* A slip of the same shape: the first project's position, whatever is selected.
FirstIndex == IF shoots = <<>> THEN -1 ELSE 0

\* shoots.findIndex((item) => item.id === selectedProject.id), zero-based.
SelectedIndex ==
    IF \E i \in DOMAIN shoots : shoots[i].id = shoots[selectedProject].id
    THEN (CHOOSE i \in DOMAIN shoots :
              /\ shoots[i].id = shoots[selectedProject].id
              /\ \A j \in 1..(i - 1) : shoots[j].id # shoots[selectedProject].id) - 1
    ELSE -1

\* Lines 431-454; present is whether document.getElementById finds the section.
goToSection(sectionId, present) ==
    /\ isMenuOpen' = FALSE
    /\ IF pathname # RootPath
       THEN /\ HistoryHasRoom(RootPath)
            /\ activeWorkIndex' =
                   IF sectionId = <<"work">> /\ selectedProject # 0 /\ SelectedIndex >= 0
                   THEN SelectedIndex
                   ELSE activeWorkIndex
            /\ navigateTo(RootPath, FALSE)
            /\ Render(normalizePathname(RootPath), sectionId, timeoutId)
            /\ scrollCmd' = NoScroll
       ELSE /\ Render(pathname, Null, timeoutId)
            /\ scrollCmd' = IF present
                            THEN [by |-> "goToSection", target |-> sectionId]
                            ELSE NoScroll
            /\ UNCHANGED <<history, historyIndex, activeWorkIndex>>
    /\ lastNav' = [kind |-> "goToSection", section |-> sectionId]
    /\ UNCHANGED <<photoLoaders, shoots>>

\* Lines 473-482, for the project at index i of shoots (the slider's cards are
\* on the main page).
openProject(i) ==
    LET nextPath == getProjectPath(shoots[i].routeSlug)
    IN  /\ RouteView = "main"
        /\ HistoryHasRoom(nextPath)
        /\ navigateTo(nextPath, FALSE)
        /\ Render(normalizePathname(nextPath), Null, timeoutId)
        /\ isMenuOpen' = FALSE
        /\ scrollCmd' = [by |-> "openProject", target |-> <<"top">>]
        /\ lastNav' = [kind |-> "openProject", section |-> Null]
        /\ UNCHANGED <<photoLoaders, shoots, activeWorkIndex>>

\* A value read as a slide index is a record: finite tells an integer n from
\* what Number.isFinite rejects (NaN, and the undefined of a missing field).
Number(k) == [finite |-> TRUE, n |-> k]

\* Number.NaN.
NaN == [finite |-> FALSE, n |-> 0]

NumberIsFinite(x) == x.finite

\* workMainSwiperRef.current before onSwiper ran: null, no swiper instance.
NullSwiper == [exists |-> FALSE, realIndex |-> NaN, activeIndex |-> NaN]

\* swiper?.realIndex and swiper?.activeIndex, lines 461-462: undefined, which
\* is not finite either, when there is no swiper.
OptionalField(swiper, field) == IF ~swiper.exists THEN NaN ELSE swiper[field]

\* The % of JavaScript on integers: the remainder has the dividend's sign.
JsRemainder(a, n) == IF a >= 0 THEN a % n ELSE -((-a) % n)

\* A slip of the same shape: the remainder alone.
RemainderOnly(resolvedIndex, length) == JsRemainder(resolvedIndex, length)

\* ((resolvedIndex % length) + length) % length, lines 470 and 522.
WrapIndex(resolvedIndex, length) ==
    JsRemainder(JsRemainder(resolvedIndex, length) + length, length)

\* The body of getValidSwiperIndex, lines 456-471, for the activeWorkIndex
\* and the shoots.length of its closure.
ValidSwiperIndex(swiper, fallback, length) ==
    IF length = 0 THEN -1
    ELSE LET realIndex == IF NumberIsFinite(OptionalField(swiper, "realIndex"))
                          THEN swiper.realIndex ELSE NaN
             activeIndex == IF NumberIsFinite(OptionalField(swiper, "activeIndex"))
                            THEN swiper.activeIndex ELSE NaN
             fallbackIndex == IF NumberIsFinite(fallback) THEN fallback.n ELSE 0
             resolvedIndex == IF NumberIsFinite(realIndex) THEN realIndex.n
                              ELSE IF NumberIsFinite(activeIndex) THEN activeIndex.n
                              ELSE fallbackIndex
         IN  WrapIndex(resolvedIndex, length)

getValidSwiperIndex(swiper) ==
    ValidSwiperIndex(swiper, Number(activeWorkIndex), Len(shoots))

\* Lines 521-523, for a value of activeWorkIndex and of shoots.length.
SafeIndex(active, length) ==
    IF length > 0 /\ NumberIsFinite(active) THEN WrapIndex(active.n, length) ELSE 0

safeWorkIndex == SafeIndex(Number(activeWorkIndex), Len(shoots))

\* A handler returned early: the state is as it was.
NothingDone ==
    /\ Render(pathname, pendingSectionId, timeoutId)
    /\ scrollCmd' = NoScroll
    /\ UNCHANGED <<photoLoaders, shoots, history, historyIndex, activeWorkIndex,
                   isMenuOpen, lastNav>>

\* Lines 494-508: onSlideChange of the slider on the main page.
handleWorkSlideChange(swiper) ==
    LET nextIndex == getValidSwiperIndex(swiper)
    IN  /\ RouteView = "main"
        /\ IF nextIndex < 0
           THEN NothingDone
           ELSE /\ activeWorkIndex' = nextIndex
                /\ Render(pathname, pendingSectionId, timeoutId)
                /\ scrollCmd' = NoScroll
                /\ UNCHANGED <<photoLoaders, shoots, history, historyIndex, isMenuOpen,
                               lastNav>>

\* openProject(shoots[slideIndex]), lines 491 and 717; openProject returns at
\* once when shoots has no such element, lines 474-476.
OpenSlide(slideIndex) ==
    IF slideIndex < 0 \/ slideIndex + 1 \notin DOMAIN shoots
    THEN NothingDone
    ELSE openProject(slideIndex + 1)

\* Lines 484-492, workMainSwiperRef.current being swiper: the button over the
\* active slide, rendered when there is an active project (lines 748-755).
openActiveProject(swiper) ==
    /\ RouteView = "main"
    /\ Len(shoots) > 0
    /\ OpenSlide(getValidSwiperIndex(swiper))

\* The slider's onTap, lines 700-718; onTarget is whether the tap hit a card,
\* a view button or the cover button.
onTap(swiper, onTarget) ==
    /\ RouteView = "main"
    /\ swiper.exists
    /\ IF onTarget THEN OpenSlide(getValidSwiperIndex(swiper)) ELSE NothingDone

\* Browser back/forward to entry i, then handlePopState, lines 310-312.
handlePopState(i) ==
    /\ i # historyIndex
    /\ historyIndex' = i
    /\ Render(normalizePathname(history[i]), pendingSectionId, timeoutId)
    /\ scrollCmd' = NoScroll
    /\ lastNav' = [kind |-> "popstate", section |-> Null]
    /\ UNCHANGED <<photoLoaders, shoots, history, activeWorkIndex, isMenuOpen>>

\* The timer callback of the pending-section effect, lines 323-331.
TimerFires(present) ==
    /\ timeoutId # Null
    /\ scrollCmd' = IF present THEN [by |-> "timer", target |-> timeoutId] ELSE NoScroll
    /\ Render(pathname, Null, Null)
    /\ UNCHANGED <<photoLoaders, shoots, history, historyIndex, activeWorkIndex,
                   isMenuOpen, lastNav>>

\* The menu button, line 546.
ToggleMenu ==
    /\ isMenuOpen' = ~isMenuOpen
    /\ scrollCmd' = NoScroll
    /\ UNCHANGED <<photoLoaders, shoots, history, historyIndex, pathname, routeProjectSlug,
                   selectedProject, pendingSectionId, timeoutId, activeWorkIndex, lastNav>>

-----------------------------------------------------------------------------
\* The router's runs.

Prefix(name) == PHOTO_ROOT_PREFIX \o <<name>>

FileA == <<"a", ".", "j", "p", "g">>

FileB == <<"b", ".", "j", "p", "g">>

Dated(year, month, day, suffix) ==
    year \o <<"-">> \o month \o <<"-">> \o day \o <<"-">> \o suffix

Y2026 == <<"2", "0", "2", "6">>

\* Asset mappings a build can hold.  The first has pairwise distinct route
\* slugs, one of them empty; in the second two folders share a route slug.
UniqueSlugAssets ==
    << HERO_PATH,
       Prefix(Dated(Y2026, <<"0", "7">>, <<"1", "5">>, <<"_">>)) \o <<FileA>>,
       Prefix(Dated(Y2026, <<"0", "8">>, <<"0", "1">>, <<"a">>)) \o <<FileA>>,
       Prefix(Dated(Y2026, <<"0", "8">>, <<"0", "1">>, <<"a">>)) \o <<FileB>> >>

CollidingSlugAssets ==
    << Prefix(Dated(Y2026, <<"0", "1">>, <<"0", "1">>, <<"b">>)) \o <<FileA>>,
       HERO_PATH,
       Prefix(Dated(Y2026, <<"0", "8">>, <<"0", "1">>, <<"a">>)) \o <<FileA>>,
       Prefix(Dated(Y2026, <<"0", "3">>, <<"0", "2">>, <<"B">>)) \o <<FileA>> >>

\* A mapping with projects and no hero image.
HerolessAssets ==
    << Prefix(Dated(Y2026, <<"0", "8">>, <<"0", "1">>, <<"a">>)) \o <<FileA>>,
       Prefix(Dated(Y2026, <<"0", "3">>, <<"0", "2">>, <<"B">>)) \o <<FileA>> >>

RouterAssets == {UniqueSlugAssets, CollidingSlugAssets, HerolessAssets}

\* photoLoaders[HERO_PATH], line 201: a loader is named by its asset path.
heroPhoto == IF HERO_PATH \in Range(photoLoaders) THEN HERO_PATH ELSE Undefined

\* A slip of the same shape: no guard before the view is returned.
OutputWithoutGuard(hero, view) == view

\* What App returns, lines 510-512 and 528-963: nothing without a hero image,
\* else the page of the view.
AppOutput(hero, view) == IF hero = Undefined THEN "nothing" ELSE view

AppRenders == AppOutput(heroPhoto, RouteView)

\* The buttons and the slider exist only in what App renders.
Rendered == AppRenders # "nothing"

\* The values a swiper reports for realIndex and activeIndex.
IndexValues == {Number(k) : k \in -MaxIndex..MaxIndex} \cup {NaN}

\* The swiper instances the handlers are called with, and the null of
\* workMainSwiperRef before onSwiper ran.
Swipers ==
    {NullSwiper} \cup [exists : {TRUE}, realIndex : IndexValues, activeIndex : IndexValues]

Portfolio == <<"/", "p", "o", "r", "t", "f", "o", "l", "i", "o">>

\* Paths the browser can load the page at.
EntryPaths ==
    { RootPath,
      Portfolio \o <<"/">>,
      Portfolio \o <<"/", "A">>,
      Portfolio \o <<"/", "a", "/">>,
      Portfolio \o <<"/", "%", "6", "2">>,
      Portfolio \o <<"/", "%", "F", "1">>,
      Portfolio \o <<"/", "a", "/", "b">>,
      <<"/", "/", "a">> }

CallsIdle ==
    /\ input = <<>>
    /\ value = <<>>
    /\ applied = <<>>

\* No LazyPhoto is mounted and no orientation is known.
LazyIdle ==
    /\ slots = <<>>
    /\ calls = <<>>
    /\ probes = <<>>
    /\ workOrientations = <<>>
    /\ isMounted = TRUE
    /\ hasIntersectionObserver = TRUE

\* The state after the first render of App.
Init ==
    /\ photoLoaders \in RouterAssets
    /\ shoots = builtShoots(photoLoaders)
    /\ digitalImages = sortedDigitals(photoLoaders)
    /\ \E entry \in EntryPaths :
           /\ history = <<entry>>
           /\ pathname = normalizePathname(entry)
    /\ historyIndex = 1
    /\ routeProjectSlug = getProjectSlugFromPathname(pathname)
    /\ selectedProject = ComputeSelectedProject(shoots, routeProjectSlug)
    /\ pendingSectionId = Null
    /\ timeoutId = Null
    /\ activeWorkIndex = 0
    /\ isMenuOpen = FALSE
    /\ lastNav = [kind |-> "load", section |-> Null]
    /\ scrollCmd = NoScroll
    /\ CallsIdle
    /\ LazyIdle

Next ==
    \/ Rendered /\ goHome /\ UNCHANGED <<callVars, digitalImages, lazyVars>>
    \/ \E sectionId \in SectionIds, present \in BOOLEAN :
           Rendered /\ goToSection(sectionId, present)
               /\ UNCHANGED <<callVars, digitalImages, lazyVars>>
    \/ \E i \in DOMAIN shoots :
           Rendered /\ openProject(i) /\ UNCHANGED <<callVars, digitalImages, lazyVars>>
    \/ \E swiper \in Swipers :
           Rendered /\ handleWorkSlideChange(swiper)
               /\ UNCHANGED <<callVars, digitalImages, lazyVars>>
    \/ \E i \in DOMAIN history : handlePopState(i) /\ UNCHANGED <<callVars, digitalImages, lazyVars>>
    \/ \E present \in BOOLEAN : TimerFires(present) /\ UNCHANGED <<callVars, digitalImages, lazyVars>>
    \/ Rendered /\ ToggleMenu /\ UNCHANGED <<callVars, digitalImages, lazyVars>>

Spec == Init /\ [][Next]_vars

\* The callback of a scheduled window.setTimeout(..., 80) is run by the event
\* loop once its delay has passed, unless clearTimeout disables it first.
TimerStep ==
    \E present \in BOOLEAN :
        TimerFires(present) /\ UNCHANGED <<callVars, digitalImages, lazyVars>>

SpecLive == Init /\ [][Next]_vars /\ WF_vars(TimerStep)

-----------------------------------------------------------------------------
\* Runs of the pure path functions: an argument is drawn, then functions are
\* applied to the current value one after another.

PathChars == {"/", "a", "B", "-", "%", "&"}

RouterIdle ==
    /\ photoLoaders = <<>>
    /\ shoots = <<>>
    /\ digitalImages = <<>>
    /\ history = <<RootPath>>
    /\ historyIndex = 1
    /\ pathname = RootPath
    /\ routeProjectSlug = Null
    /\ selectedProject = 0
    /\ pendingSectionId = Null
    /\ timeoutId = Null
    /\ activeWorkIndex = 0
    /\ isMenuOpen = FALSE
    /\ lastNav = [kind |-> "load", section |-> Null]
    /\ scrollCmd = NoScroll

InitPath ==
    /\ RouterIdle
    /\ LazyIdle
    /\ input \in StringsUpTo(PathChars, MaxStrLen)
    /\ value = input
    /\ applied = <<>>

Apply(name, result) ==
    /\ Len(applied) < MaxCalls
    /\ value' = result
    /\ applied' = Append(applied, name)
    /\ UNCHANGED input
    /\ UNCHANGED routerVars
    /\ UNCHANGED lazyVars

CallNormalizePathname == Apply("normalizePathname", normalizePathname(value))

\* toRouteSlug takes a folder suffix, the argument drawn: capture group (.+)
\* of a path segment, so it is not empty and holds no slash.
CallToRouteSlug ==
    /\ applied = <<>>
    /\ value # <<>>
    /\ "/" \notin Range(value)
    /\ Apply("toRouteSlug", toRouteSlug(value))

\* getProjectPath takes a project's routeSlug, line 480.
CallGetProjectPath ==
    /\ applied = <<"toRouteSlug">>
    /\ Apply("getProjectPath", getProjectPath(value))

CallGetProjectSlugFromPathname ==
    /\ value # Null
    /\ Apply("getProjectSlugFromPathname", getProjectSlugFromPathname(value))

NextPath ==
    \/ CallNormalizePathname
    \/ CallToRouteSlug
    \/ CallGetProjectPath
    \/ CallGetProjectSlugFromPathname

SpecPath == InitPath /\ [][NextPath]_vars

-----------------------------------------------------------------------------
\* Runs of the slider: a swiper and a value of activeWorkIndex are drawn;
\* getValidSwiperIndex or the safeWorkIndex expression is applied to them, or
\* the slider's handlers are called with the swiper on the main page.

SwiperAssets == {<<HERO_PATH>>, UniqueSlugAssets, CollidingSlugAssets}

InitSwiper ==
    /\ photoLoaders \in SwiperAssets
    /\ shoots = builtShoots(photoLoaders)
    /\ digitalImages = sortedDigitals(photoLoaders)
    /\ history = <<RootPath>>
    /\ historyIndex = 1
    /\ pathname = RootPath
    /\ routeProjectSlug = Null
    /\ selectedProject = 0
    /\ pendingSectionId = Null
    /\ timeoutId = Null
    /\ activeWorkIndex = 0
    /\ isMenuOpen = FALSE
    /\ lastNav = [kind |-> "load", section |-> Null]
    /\ scrollCmd = NoScroll
    /\ LazyIdle
    /\ input \in [swiper : Swipers, activeWorkIndex : IndexValues]
    /\ value = <<>>
    /\ applied = <<>>

CallFunction(name, result) ==
    /\ applied = <<>>
    /\ value' = result
    /\ applied' = <<name>>
    /\ UNCHANGED <<input, routerVars, lazyVars>>

CallGetValidSwiperIndex ==
    CallFunction("getValidSwiperIndex",
                 ValidSwiperIndex(input.swiper, input.activeWorkIndex, Len(shoots)))

CallSafeWorkIndex ==
    CallFunction("safeWorkIndex", SafeIndex(input.activeWorkIndex, Len(shoots)))

HandlerNames == {"handleWorkSlideChange", "openActiveProject", "onTap"}

\* A handler of the slider runs; value keeps the index it computed.
CallHandler(name) ==
    /\ Len(applied) < MaxSlides
    /\ \A k \in DOMAIN applied : applied[k] \in HandlerNames
    /\ value' = getValidSwiperIndex(input.swiper)
    /\ applied' = Append(applied, name)
    /\ UNCHANGED <<input, digitalImages, lazyVars>>

NextSwiper ==
    \/ CallGetValidSwiperIndex
    \/ CallSafeWorkIndex
    \/ handleWorkSlideChange(input.swiper) /\ CallHandler("handleWorkSlideChange")
    \/ openActiveProject(input.swiper) /\ CallHandler("openActiveProject")
    \/ \E onTarget \in BOOLEAN :
           onTap(input.swiper, onTarget) /\ CallHandler("onTap")

SpecSwiper == InitSwiper /\ [][NextSwiper]_vars

-----------------------------------------------------------------------------
\* Runs of the grouper alone: an asset mapping is drawn in some enumeration
\* order, then grouped.

ShootAsset(year, month, day, suffix) ==
    Prefix(Dated(year, month, day, suffix)) \o <<FileA>>

\* The assets a mapping is drawn from: dated folders (two that differ in
\* letter case only, two whose written dates denote the same day), the hero
\* image, a digitals file and a folder that is no shoot.
GroupAssetPool ==
    { ShootAsset(Y2026, <<"0", "8">>, <<"0", "1">>, <<"a">>),
      ShootAsset(Y2026, <<"0", "8">>, <<"0", "1">>, <<"A">>),
      ShootAsset(Y2026, <<"0", "8">>, <<"0", "1">>, <<"b">>),
      ShootAsset(Y2026, <<"0", "2">>, <<"3", "0">>, <<"c">>),
      ShootAsset(Y2026, <<"0", "3">>, <<"0", "2">>, <<"c">>),
      Prefix(Dated(Y2026, <<"0", "8">>, <<"0", "1">>, <<"a">>)) \o <<FileB>>,
      HERO_PATH,
      Prefix(<<"d", "i", "g", "i", "t", "a", "l", "s">>) \o <<FileA>>,
      Prefix(<<"m", "i", "s", "c">>) \o <<FileA>> }

\* The sequences of pairwise different elements of pool, of length at most n.
RECURSIVE Enumerations(_, _)
Enumerations(pool, n) ==
    IF n = 0 THEN {<<>>}
    ELSE LET shorter == Enumerations(pool, n - 1)
         IN  shorter \cup {x \in {Append(e, a) : e \in shorter, a \in pool} :
                               \A i, j \in DOMAIN x : x[i] = x[j] => i = j}

\* A file of one folder, and a file of a subfolder of it.
InFolder(folderName, fileName) == Prefix(folderName) \o <<fileName>>

InSubfolder(folderName, fileName) == Prefix(folderName) \o << <<"s", "u", "b">>, fileName >>

CoverFolder == <<"2", "0", "2", "6", "-", "0", "5", "-", "0", "5", "-", "x">>

\* The files of one folder: two cover names, plain names before and after
\* them in file-name order, two names that differ in letter case only, and
\* files of a subfolder that repeat a name.
CoverPool ==
    { InFolder(CoverFolder, FileA),
      InFolder(CoverFolder, <<"B", ".", "j", "p", "g">>),
      InFolder(CoverFolder, <<"c", "o", "v", "e", "r", ".", "p", "n", "g">>),
      InFolder(CoverFolder, <<"C", "o", "v", "e", "r", ".", "J", "P", "G">>),
      InFolder(CoverFolder, <<"z", ".", "j", "p", "g">>),
      InSubfolder(CoverFolder, FileA),
      InSubfolder(CoverFolder, <<"c", "o", "v", "e", "r", ".", "j", "p", "e", "g">>) }

\* Files of the digitals folder, under some spellings of its name, and one
\* file of a shoot.
DigitalsPool ==
    { InFolder(DigitalsFolder, FileA),
      InFolder(DigitalsFolder, <<"B", ".", "j", "p", "g">>),
      InFolder(<<"D", "i", "g", "i", "t", "a", "l", "s">>, <<"c", ".", "j", "p", "g">>),
      InFolder(DigitalsFolder, <<"d", ".", "j", "p", "g">>),
      InSubfolder(<<"D", "I", "G", "I", "T", "A", "L", "S">>, <<"A", ".", "j", "p", "g">>),
      InFolder(CoverFolder, FileA) }

\* Assets the scan has to leave out, next to two it keeps: the hero image, a
\* file at the photo root, a file outside the photo root, folders that are
\* neither digitals nor dated (a word, a date with a letter in it, a date
\* without a suffix).
ExclusionPool ==
    { HERO_PATH,
      PHOTO_ROOT_PREFIX \o <<FileA>>,
      << <<".">>, <<"a", "s", "s", "e", "t", "s">>, <<"o", "t", "h", "e", "r">>,
         CoverFolder, FileA >>,
      InFolder(<<"m", "i", "s", "c">>, FileA),
      InFolder(<<"2", "0", "2", "6", "-", "0", "5", "-", "0", "x", "-", "a", "b">>, FileA),
      InFolder(<<"2", "0", "2", "6", "-", "0", "5", "-", "0", "5", "-">>, FileA),
      InFolder(CoverFolder, FileB),
      InFolder(DigitalsFolder, FileB) }

\* Folders whose routeSlug is a key of the content table (written in several
\* ways) and folders whose routeSlug is not.
ContentPool ==
    { InFolder(<<"2", "0", "2", "6", "-", "0", "1", "-", "0", "1", "-", "h", "i", "g", "h",
                 "-", "f", "a", "s", "h", "i", "o", "n">>, FileA),
      InFolder(<<"2", "0", "2", "6", "-", "0", "2", "-", "0", "2", "-", "B", "e", "a", "u",
                 "t", "y", " ", "&", " ", "P", "o", "r", "t", "r", "a", "i", "t", "s">>, FileA),
      InFolder(<<"2", "0", "2", "6", "-", "0", "3", "-", "0", "3", "-", "s", "t", "r", "e",
                 "e", "t", "_", "s", "t", "y", "l", "e", " ", "t", "w", "o">>, FileA),
      InFolder(<<"2", "0", "2", "6", "-", "0", "4", "-", "0", "4", "-", "E", "d", "i", "t",
                 "o", "r", "i", "a", "l", "!">>, FileA),
      InFolder(<<"2", "0", "2", "6", "-", "0", "6", "-", "0", "6", "-", "_">>, FileA) }

FilePools == {CoverPool, DigitalsPool, ExclusionPool, ContentPool}

InitGroup ==
    /\ photoLoaders \in Enumerations(GroupAssetPool, MaxAssets)
                         \cup UNION {Enumerations(pool, MaxFiles) : pool \in FilePools}
    /\ shoots = <<>>
    /\ digitalImages = <<>>
    /\ history = <<RootPath>>
    /\ historyIndex = 1
    /\ pathname = RootPath
    /\ routeProjectSlug = Null
    /\ selectedProject = 0
    /\ pendingSectionId = Null
    /\ timeoutId = Null
    /\ activeWorkIndex = 0
    /\ isMenuOpen = FALSE
    /\ lastNav = [kind |-> "load", section |-> Null]
    /\ scrollCmd = NoScroll
    /\ CallsIdle
    /\ LazyIdle

\* The grouping memo, lines 203-297.
Group ==
    /\ applied = <<>>
    /\ shoots' = builtShoots(photoLoaders)
    /\ digitalImages' = sortedDigitals(photoLoaders)
    /\ applied' = <<"grouping">>
    /\ UNCHANGED lazyVars
    /\ UNCHANGED <<photoLoaders, history, historyIndex, pathname, routeProjectSlug,
                   selectedProject, pendingSectionId, timeoutId, activeWorkIndex,
                   isMenuOpen, lastNav, scrollCmd, input, value>>

NextGroup == Group

SpecGroup == InitGroup /\ [][NextGroup]_vars

-----------------------------------------------------------------------------
\* LazyPhoto (src/src/projectContent.js:123-189) and the cover-orientation
\* probe of App (lines 347-385).
\*
\* slots[s] is one LazyPhoto instance: its prop loader, its state src and
\* shouldLoad, whether it is mounted, and the number of the current run of its
\* load effect.  calls lists the loader() calls that have not settled, in the
\* order they were made; a call keeps the isMounted flag of the effect run
\* that made it.  A slot also records how the call of its current effect run
\* settled (outcome), whether that call settled before one made earlier
\* (overtook), and what became of the result of a call that settled after
\* the slot had moved on to another effect run or was unmounted (lateResult).

\* The string a loader resolves to: the URL of its asset, one per path.
ResolvedSrc(loader) == Join(loader, <<"/">>)

SlotIds == {1, 2}

\* A slip of the same shape: the effect returns no cleanup.
NoCleanup(cs, s) == cs

\* The cleanup of the load effect, lines 173-175: isMounted = false in the
\* closure of the slot's current effect run.
Cleanup(cs, s) ==
    [k \in DOMAIN cs |->
        IF cs[k].slot = s /\ cs[k].effect = slots[s].effect
        THEN [cs[k] EXCEPT !.isMounted = FALSE]
        ELSE cs[k]]

\* A slip of the same shape: shouldLoad is not asked.
CallsWithoutShouldLoad(loader, shouldLoad) == loader # Undefined

\* Does run number effect of the load effect call the loader, line 155.
CallsLoader(loader, shouldLoad) == loader # Undefined /\ shouldLoad

\* The body of the load effect, lines 155-171, in run number effect of slot s.
LoadEffect(cs, s, loader, shouldLoad, effect) ==
    IF CallsLoader(loader, shouldLoad)
    THEN Append(cs, [slot |-> s, effect |-> effect, loader |-> loader, isMounted |-> TRUE])
    ELSE cs

\* A slip of the same shape: the catch callback leaves src as it is.
SrcKeptOnReject(current, loader, outcome) ==
    IF outcome = "resolved" THEN ResolvedSrc(loader) ELSE current

\* What the then and catch callbacks pass to setSrc, lines 162-171.
SrcSet(current, loader, outcome) ==
    IF outcome = "resolved" THEN ResolvedSrc(loader) ELSE Null

\* The slot after its load effect ran again.
Rerun(slot, loader, shouldLoad) ==
    [slot EXCEPT !.loader = loader,
                 !.shouldLoad = shouldLoad,
                 !.effect = @ + 1,
                 !.outcome = IF CallsLoader(loader, shouldLoad) THEN "pending" ELSE "none",
                 !.overtook = FALSE]

\* The IntersectionObserver callback, lines 140-145, and the render after it:
\* shouldLoad changed, so the load effect runs again.
Intersect(s) ==
    /\ slots[s].mounted
    /\ ~slots[s].shouldLoad
    /\ slots[s].effect < MaxLoads
    /\ slots' = [slots EXCEPT ![s] = [Rerun(@, @.loader, TRUE) EXCEPT !.intersected = TRUE]]
    /\ calls' = LoadEffect(Cleanup(calls, s), s, slots[s].loader, TRUE, slots[s].effect + 1)
    /\ UNCHANGED <<probes, workOrientations, isMounted, hasIntersectionObserver>>

\* The parent renders the slot with another loader: the load effect's cleanup
\* and its next run, lines 154-176.  src is left as it is.
ReplaceLoader(s, loader) ==
    /\ slots[s].mounted
    /\ loader # slots[s].loader
    /\ slots[s].effect < MaxLoads
    /\ slots' = [slots EXCEPT ![s] = Rerun(@, loader, @.shouldLoad)]
    /\ calls' = LoadEffect(Cleanup(calls, s), s, loader, slots[s].shouldLoad,
                           slots[s].effect + 1)
    /\ UNCHANGED <<probes, workOrientations, isMounted, hasIntersectionObserver>>

\* The slot is unmounted: the cleanups of its effects run.
Unmount(s) ==
    /\ slots[s].mounted
    /\ slots' = [slots EXCEPT ![s].mounted = FALSE]
    /\ calls' = Cleanup(calls, s)
    /\ UNCHANGED <<probes, workOrientations, isMounted, hasIntersectionObserver>>

\* The sequence without its element k.
RemoveAt(seq, k) == SubSeq(seq, 1, k - 1) \o SubSeq(seq, k + 1, Len(seq))

\* The promise of call k settles, outcome being "resolved" or "rejected":
\* the then or the catch callback, lines 162-171.
Settle(k, outcome) ==
    LET c == calls[k]
        slot == slots[c.slot]
        late == ~slot.mounted \/ slot.effect # c.effect
        nextSrc == IF c.isMounted THEN SrcSet(slot.src, c.loader, outcome) ELSE slot.src
    IN  /\ calls' = RemoveAt(calls, k)
        /\ slots' = [slots EXCEPT ![c.slot] =
                         IF late
                         THEN [slot EXCEPT !.src = nextSrc,
                                           !.lateResult = IF c.isMounted THEN "applied"
                                                          ELSE "discarded"]
                         ELSE [slot EXCEPT !.src = nextSrc,
                                           !.outcome = outcome,
                                           !.overtook = k > 1]]
        /\ UNCHANGED <<probes, workOrientations, isMounted, hasIntersectionObserver>>

\* The load effects of the first render, in the order of the slots.
RECURSIVE MountEffects(_, _, _)
MountEffects(n, loaders, shouldLoad) ==
    IF n = 0 THEN <<>>
    ELSE LoadEffect(MountEffects(n - 1, loaders, shouldLoad), n, loaders[n], shouldLoad[n], 1)

\* The string the orientation promise of lines 359-366 resolves to, or the
\* catch of lines 369-371 returns: "portrait" unless the probe image loaded
\* wider than high.
EntryOrientation(probe) ==
    IF probe.outcome = "onload" /\ probe.naturalWidth > probe.naturalHeight
    THEN "landscape"
    ELSE "portrait"

\* A slip of the same shape: no try and catch around the awaits, so that
\* Promise.all rejects with the first loader that does.
FulfilsWithoutCatch(ps) ==
    \A i \in DOMAIN ps : ps[i].phase = "done" /\ ps[i].outcome # "rejected"

\* Promise.all of lines 355-373 fulfils once every item's async callback has
\* returned its entry.
PromiseAllFulfils(ps) == \A i \in DOMAIN ps : ps[i].phase = "done"

\* Object.fromEntries(orientationEntries), line 376.
OrientationsFrom(ps) ==
    [id \in {shoots[i].id : i \in DOMAIN shoots} |->
        EntryOrientation(ps[CHOOSE i \in DOMAIN shoots :
                                /\ shoots[i].id = id
                                /\ \A j \in (i + 1)..Len(shoots) : shoots[j].id # id])]

\* A slip of the same shape: the flag is not asked.
SetsWithoutIsMounted(ps, mounted) == PromiseAllFulfils(ps)

\* resolveOrientation goes on after the await of Promise.all and passes
\* if (isMounted), lines 355 and 375.
SetsWorkOrientations(ps, mounted) == PromiseAllFulfils(ps) /\ mounted

\* The continuation of resolveOrientation after a probe's step, lines 375-377.
AfterProbe(ps) ==
    /\ probes' = ps
    /\ workOrientations' = IF SetsWorkOrientations(ps, isMounted) THEN OrientationsFrom(ps)
                           ELSE workOrientations
    /\ UNCHANGED <<slots, calls, isMounted, hasIntersectionObserver>>

\* await item.image() of project i settles, line 358: the probe image is
\* created, or the catch returns the entry.
CoverLoaderSettles(i, outcome) ==
    /\ probes[i].phase = "loading"
    /\ AfterProbe([probes EXCEPT ![i] =
                       IF outcome = "resolved"
                       THEN [@ EXCEPT !.phase = "probing"]
                       ELSE [@ EXCEPT !.phase = "done", !.outcome = "rejected"]])

\* onload or onerror of project i's probe image, lines 361-364.
ProbeImageSettles(i, event, size) ==
    /\ probes[i].phase = "probing"
    /\ AfterProbe([probes EXCEPT ![i] =
                       [phase |-> "done", outcome |-> event,
                        naturalWidth |-> IF event = "onload" THEN size[1] ELSE 0,
                        naturalHeight |-> IF event = "onload" THEN size[2] ELSE 0]])

\* The load effect's cleanup of every slot, lines 173-175.
RECURSIVE CleanupAll(_, _)
CleanupAll(cs, n) == IF n = 0 THEN cs ELSE Cleanup(CleanupAll(cs, n - 1), n)

\* The App is unmounted: the cleanup of the orientation effect, lines 382-384,
\* and the unmounting of every LazyPhoto it rendered.
UnmountApp ==
    /\ isMounted
    /\ isMounted' = FALSE
    /\ slots' = [s \in DOMAIN slots |-> [slots[s] EXCEPT !.mounted = FALSE]]
    /\ calls' = CleanupAll(calls, Len(slots))
    /\ UNCHANGED <<probes, workOrientations, hasIntersectionObserver>>

\* Loaders the App hands to LazyPhoto instances: the projects' covers.
AppLoaders == {shoots[i].image : i \in DOMAIN shoots}

\* Natural sizes of a probe image: wider than high, and not.
ImageSizes == {<<2, 1>>, <<1, 2>>}

\* The state after the first render of the App and its effects: every slot
\* mounted, src null, shouldLoad as line 125 sets it, the load effect run once,
\* and resolveOrientation waiting for every cover's loader.
InitLazy ==
    /\ photoLoaders = UniqueSlugAssets
    /\ shoots = builtShoots(photoLoaders)
    /\ digitalImages = sortedDigitals(photoLoaders)
    /\ history = <<RootPath>>
    /\ historyIndex = 1
    /\ pathname = RootPath
    /\ routeProjectSlug = Null
    /\ selectedProject = 0
    /\ pendingSectionId = Null
    /\ timeoutId = Null
    /\ activeWorkIndex = 0
    /\ isMenuOpen = FALSE
    /\ lastNav = [kind |-> "load", section |-> Null]
    /\ scrollCmd = NoScroll
    /\ CallsIdle
    /\ hasIntersectionObserver \in BOOLEAN
    /\ isMounted = TRUE
    /\ \E loaders \in [SlotIds -> AppLoaders], priority \in [SlotIds -> BOOLEAN] :
           LET shouldLoad == [s \in SlotIds |-> priority[s] \/ ~hasIntersectionObserver]
           IN  /\ slots = [s \in SlotIds |->
                              [loader |-> loaders[s], priority |-> priority[s],
                               intersected |-> FALSE, shouldLoad |-> shouldLoad[s],
                               src |-> Null, mounted |-> TRUE, effect |-> 1,
                               outcome |-> IF CallsLoader(loaders[s], shouldLoad[s])
                                           THEN "pending" ELSE "none",
                               overtook |-> FALSE, lateResult |-> "none"]]
               /\ calls = MountEffects(Cardinality(SlotIds), loaders, shouldLoad)
    /\ probes = [i \in DOMAIN shoots |->
                    [phase |-> "loading", outcome |-> "none",
                     naturalWidth |-> 0, naturalHeight |-> 0]]
    /\ workOrientations = <<>>

\* The life of the LazyPhoto instances: shown, given other loaders, unmounted,
\* while their loaders settle in any order.
NextLazy ==
    \/ \E s \in SlotIds : Intersect(s) /\ UNCHANGED <<routerVars, callVars>>
    \/ \E s \in SlotIds, loader \in AppLoaders \cup {Undefined} :
           ReplaceLoader(s, loader) /\ UNCHANGED <<routerVars, callVars>>
    \/ \E s \in SlotIds : Unmount(s) /\ UNCHANGED <<routerVars, callVars>>
    \/ \E k \in DOMAIN calls, outcome \in {"resolved", "rejected"} :
           Settle(k, outcome) /\ UNCHANGED <<routerVars, callVars>>

SpecLazy == InitLazy /\ [][NextLazy]_vars

\* The main page while its images load: the LazyPhoto instances keep their
\* loaders, and resolveOrientation probes every cover, each loader and each
\* probe image settling in any order.
NextProbe ==
    \/ \E s \in SlotIds : Intersect(s) /\ UNCHANGED <<routerVars, callVars>>
    \/ \E s \in SlotIds : Unmount(s) /\ UNCHANGED <<routerVars, callVars>>
    \/ UnmountApp /\ UNCHANGED <<routerVars, callVars>>
    \/ \E k \in DOMAIN calls, outcome \in {"resolved", "rejected"} :
           Settle(k, outcome) /\ UNCHANGED <<routerVars, callVars>>
    \/ \E i \in DOMAIN probes, outcome \in {"resolved", "rejected"} :
           CoverLoaderSettles(i, outcome) /\ UNCHANGED <<routerVars, callVars>>
    \/ \E i \in DOMAIN probes, event \in {"onload", "onerror"}, size \in ImageSizes :
           ProbeImageSettles(i, event, size) /\ UNCHANGED <<routerVars, callVars>>

SpecProbe == InitLazy /\ [][NextProbe]_vars

-----------------------------------------------------------------------------
\* Properties of the router (checked under Spec).

\* C1: a scroll made by the pending-section timer belongs to the navigation
\* that recorded the section: the most recent navigation request is the
\* goToSection call for that very section (no stale scroll after the user has
\* navigated elsewhere).
C1_NoStaleScroll ==
    scrollCmd.by = "timer" =>
        lastNav = [kind |-> "goToSection", section |-> scrollCmd.target]

\* C2: every navigation request clears the pending section left by an earlier
\* request: the pending section is empty or the one the most recent
\* navigation request asked for.
C2_PendingClearedByEveryRequest ==
    \/ pendingSectionId = Null
    \/ lastNav = [kind |-> "goToSection", section |-> pendingSectionId]

\* C3: the selected project is a function of the stored path and the project
\* list alone, whatever events led to the path.
C3_SelectionFromPathAlone ==
    selectedProject = ComputeSelectedProject(shoots, getProjectSlugFromPathname(pathname))

\* C3 witness: a selection reached by browser back/forward after other
\* navigation.
C3_Witness ==
    /\ lastNav.kind = "popstate"
    /\ selectedProject # 0
    /\ Len(history) >= 3

\* Some project's routeSlug is the slug extracted from the stored path.
SomeProjectMatchesPath ==
    \E i \in DOMAIN shoots : shoots[i].routeSlug = getProjectSlugFromPathname(pathname)

UniqueRouteSlugs ==
    \A i, j \in DOMAIN shoots : shoots[i].routeSlug = shoots[j].routeSlug => i = j

\* The browser path is /portfolio/<t> or /portfolio/<t>/ with t equal to slug
\* up to letter case.
IsCaseVariantPath(path, slug) ==
    /\ startsWith(path, PROJECT_PATH_PREFIX)
    /\ LET t == toLowerCase(SubSeq(path, Len(PROJECT_PATH_PREFIX) + 1, Len(path)))
       IN  t = slug \/ t = slug \o <<"/">>

\* C8: with unique routeSlugs, a browser path /portfolio/<t>, with or without
\* a trailing slash, where t is a project's routeSlug up to letter case,
\* selects that project.
C8_CaseInsensitiveSelection ==
    UniqueRouteSlugs =>
        \A i \in DOMAIN shoots :
            IsCaseVariantPath(windowLocationPathname, shoots[i].routeSlug)
                => selectedProject = i

\* The indices of the projects whose routeSlug the stored path names.
PathMatches ==
    {i \in DOMAIN shoots : shoots[i].routeSlug = getProjectSlugFromPathname(pathname)}

-----------------------------------------------------------------------------
\* Properties of the path functions (checked under SpecPath).

\* C5: round trip: the slug read back from the path built for a routeSlug,
\* itself made by toRouteSlug from any folder suffix, is that routeSlug.
C5_SlugRoundTrip ==
    applied = <<"toRouteSlug", "getProjectPath", "getProjectSlugFromPathname">>
        => value = toRouteSlug(input)

\* C6: normalizePathname is idempotent: applied twice to any string it gives
\* what it gives applied once.
C6_NormalizeIdempotent ==
    applied = <<"normalizePathname", "normalizePathname">>
        => value = normalizePathname(input)

\* C6 witness: a second application to a result the first one changed (a
\* leading slash added, trailing slashes dropped).
C6_Witness ==
    /\ applied = <<"normalizePathname", "normalizePathname">>
    /\ input # <<>>
    /\ input[1] # "/"
    /\ input[Len(input)] = "/"
    /\ value # RootPath

\* C7: normalizePathname returns "/" or a string that starts with exactly one
\* "/" and does not end with "/".
C7_NormalizedShape ==
    applied = <<"normalizePathname">> =>
        \/ value = RootPath
        \/ /\ value[1] = "/"
           /\ Len(value) >= 2
           /\ value[2] # "/"
           /\ value[Len(value)] # "/"

-----------------------------------------------------------------------------
\* Properties of the grouper (checked under SpecGroup).

\* Folder a is ordered strictly before folder b: a later date, or the same
\* date and a case-insensitively greater name.
StrictlyBefore(a, b) ==
    \/ getFolderDateValue(a) > getFolderDateValue(b)
    \/ /\ getFolderDateValue(a) = getFolderDateValue(b)
       /\ localeCompareBase(a, b) > 0

\* C10: the projects are in decreasing order of folder date, then of
\* case-insensitive folder name, and any two different folders are strictly
\* ordered, so that the project order is the same for every enumeration
\* order of the same assets.
C10_StrictTotalOrder ==
    applied = <<"grouping">> =>
        /\ \A i, j \in DOMAIN shoots : i < j => StrictlyBefore(shoots[i].id, shoots[j].id)
        /\ \A other \in Enumerations(Range(photoLoaders), Len(photoLoaders)) :
               Len(other) = Len(photoLoaders) => builtShoots(other) = shoots

\* The assets of photoLoaders grouped under the folder of a project.
FolderFiles(folderName) ==
    {path \in Range(photoLoaders) : IsShootAsset(path) /\ FolderNameOf(path) = folderName}

\* C11: for every project, if its folder holds a file named cover.jpg,
\* cover.jpeg or cover.png in any letter case, the cover is a file so named,
\* wherever it stands in file-name order; if the folder holds none, the cover
\* is a file of the folder that no other file precedes in ascending
\* case-insensitive file-name order.
C11_CoverChoice ==
    applied = <<"grouping">> =>
        \A i \in DOMAIN shoots :
            LET files == FolderFiles(shoots[i].id)
            IN  /\ shoots[i].image \in files
                /\ IF \E f \in files : coverRegex(FileNameOf(f))
                   THEN coverRegex(FileNameOf(shoots[i].image))
                   ELSE \A f \in files :
                            localeCompareBase(FileNameOf(shoots[i].image), FileNameOf(f)) <= 0

\* C11 witness: a folder whose cover-named file is preceded in file-name
\* order by another file, and that cover-named file is the cover.
C11_Witness ==
    /\ applied = <<"grouping">>
    /\ \E i \in DOMAIN shoots :
           /\ coverRegex(FileNameOf(shoots[i].image))
           /\ \E f \in FolderFiles(shoots[i].id) :
                  localeCompareBase(FileNameOf(f), FileNameOf(shoots[i].image)) < 0

\* C12: for every project, the cover and the gallery hold every asset grouped
\* under the folder exactly once (the cover is not in the gallery, no asset is
\* missing, none is repeated), and the gallery is in ascending
\* case-insensitive file-name order.
C12_CoverGalleryPartition ==
    applied = <<"grouping">> =>
        \A i \in DOMAIN shoots :
            LET files == FolderFiles(shoots[i].id)
                gallery == shoots[i].gallery
            IN  /\ shoots[i].image \notin Range(gallery)
                /\ Range(gallery) \cup {shoots[i].image} = files
                /\ Len(gallery) + 1 = Cardinality(files)
                /\ \A a, b \in DOMAIN gallery :
                       a < b => localeCompareBase(FileNameOf(gallery[a]),
                                                  FileNameOf(gallery[b])) <= 0

\* C12 witness: a gallery of two or more files, one of which has the file
\* name of the cover (a file of a subfolder).
C12_Witness ==
    /\ applied = <<"grouping">>
    /\ \E i \in DOMAIN shoots :
           /\ Len(shoots[i].gallery) >= 2
           /\ \E k \in DOMAIN shoots[i].gallery :
                  FileNameOf(shoots[i].gallery[k]) = FileNameOf(shoots[i].image)

\* The assets of photoLoaders in the digitals folder.
DigitalsFiles == {path \in Range(photoLoaders) : IsDigitalsAsset(path)}

\* C13: the digitals list has min(3, number of digitals assets) entries,
\* pairwise different, in ascending case-insensitive file-name order, and no
\* digitals asset left out precedes one that is listed.
C13_DigitalsFirstThree ==
    applied = <<"grouping">> =>
        /\ Len(digitalImages) = (IF Cardinality(DigitalsFiles) < 3
                                 THEN Cardinality(DigitalsFiles) ELSE 3)
        /\ Range(digitalImages) \subseteq DigitalsFiles
        /\ \A a, b \in DOMAIN digitalImages :
               a < b => /\ digitalImages[a] # digitalImages[b]
                        /\ localeCompareBase(FileNameOf(digitalImages[a]),
                                             FileNameOf(digitalImages[b])) <= 0
        /\ \A out \in DigitalsFiles \ Range(digitalImages) :
               \A k \in DOMAIN digitalImages :
                   localeCompareBase(FileNameOf(digitalImages[k]), FileNameOf(out)) <= 0

\* C13 witness: four digitals assets, of which three are listed.
C13_Witness ==
    /\ applied = <<"grouping">>
    /\ Cardinality(DigitalsFiles) = 4
    /\ Len(digitalImages) = 3

\* What the claim lets into the output: a path under the photo root, other
\* than the hero path, with a folder and a file segment at least, whose
\* top-level folder is digitals in any letter case or a dated folder.
MayBeGrouped(path) ==
    /\ Len(path) >= Len(PHOTO_ROOT_PREFIX) + 2
    /\ SubSeq(path, 1, Len(PHOTO_ROOT_PREFIX)) = PHOTO_ROOT_PREFIX
    /\ path # HERO_PATH
    /\ \/ toLowerCase(path[Len(PHOTO_ROOT_PREFIX) + 1]) = DigitalsFolder
       \/ SHOOT_FOLDER_RE(path[Len(PHOTO_ROOT_PREFIX) + 1])

\* Every asset of the grouping output.
OutputAssets ==
    Range(digitalImages)
    \cup UNION {{shoots[i].image, shoots[i].backgroundImage} \cup Range(shoots[i].gallery) :
                   i \in DOMAIN shoots}

\* C14: every asset of the grouping output (cover, background, gallery entry
\* or digital) is an asset of the mapping that lies under the photo root, is
\* not the hero path, has a folder and a file segment, and whose top-level
\* folder is digitals or dated; grouping gives its result whatever else the
\* mapping holds.
C14_OnlyEligibleAssets ==
    applied = <<"grouping">> =>
        \A path \in OutputAssets : path \in Range(photoLoaders) /\ MayBeGrouped(path)

\* C14 witness: a mapping with three assets to leave out or more, and one
\* that is grouped.
C14_Witness ==
    /\ applied = <<"grouping">>
    /\ OutputAssets # {}
    /\ Cardinality({path \in Range(photoLoaders) : ~MayBeGrouped(path)}) >= 3

\* The folder names of the mapping that make a project: dated folders, under
\* the photo root, holding an asset.
ProjectFolders ==
    {path[Len(PHOTO_ROOT_PREFIX) + 1] :
         path \in {q \in Range(photoLoaders) :
                       /\ MayBeGrouped(q)
                       /\ SHOOT_FOLDER_RE(q[Len(PHOTO_ROOT_PREFIX) + 1])}}

\* C15: the project ids are exactly the distinct dated folder names that hold
\* an asset, one project each (the ids are pairwise distinct), and every
\* project is built from one file at least.
C15_OneProjectPerFolder ==
    applied = <<"grouping">> =>
        /\ {shoots[i].id : i \in DOMAIN shoots} = ProjectFolders
        /\ \A i, j \in DOMAIN shoots : shoots[i].id = shoots[j].id => i = j
        /\ \A i \in DOMAIN shoots : shoots[i].image \in FolderFiles(shoots[i].id)

\* C15 witness: two files of one folder and a file of another folder give
\* two projects.
C15_Witness ==
    /\ applied = <<"grouping">>
    /\ Len(shoots) = 2
    /\ \E i \in DOMAIN shoots : Cardinality(FolderFiles(shoots[i].id)) = 2

\* The positions of the content table whose key is the routeSlug of a project.
ContentKeysOf(project) ==
    {k \in DOMAIN PROJECT_CONTENT_KEYS :
         PROJECT_CONTENT_KEYS[k] = toRouteSlug(FolderSuffix(project.id))}

\* C17: a project whose routeSlug is a key of the content table has the
\* title, header, category and description of that entry; any other project
\* has the title-cased folder suffix as title and the header, category and
\* description of the default record.
C17_ContentFromTable ==
    applied = <<"grouping">> =>
        \A i \in DOMAIN shoots :
            IF ContentKeysOf(shoots[i]) # {}
            THEN \A k \in ContentKeysOf(shoots[i]) :
                     /\ shoots[i].title = PROJECT_CONTENT_ENTRIES[k].title
                     /\ shoots[i].header = PROJECT_CONTENT_ENTRIES[k].header
                     /\ shoots[i].category = PROJECT_CONTENT_ENTRIES[k].category
                     /\ shoots[i].description = PROJECT_CONTENT_ENTRIES[k].description
            ELSE /\ shoots[i].title = toTitleCase(FolderSuffix(shoots[i].id))
                 /\ shoots[i].header = DEFAULT_PROJECT_CONTENT.header
                 /\ shoots[i].category = DEFAULT_PROJECT_CONTENT.category
                 /\ shoots[i].description = DEFAULT_PROJECT_CONTENT.description

\* C17 witness: folder 2026-01-01-high-fashion has the title High Fashion of
\* the table, and folder 2026-03-03-street_style two, of which the table
\* knows nothing, has the title Street Style Two and the default header.
C17_Witness ==
    /\ applied = <<"grouping">>
    /\ \E i \in DOMAIN shoots :
           /\ shoots[i].id = <<"2", "0", "2", "6", "-", "0", "1", "-", "0", "1", "-", "h", "i",
                            "g", "h", "-", "f", "a", "s", "h", "i", "o", "n">>
           /\ shoots[i].title = <<"H", "i", "g", "h", " ", "F", "a", "s", "h", "i", "o", "n">>
    /\ \E i \in DOMAIN shoots :
           /\ shoots[i].id = <<"2", "0", "2", "6", "-", "0", "3", "-", "0", "3", "-", "s", "t",
                            "r", "e", "e", "t", "_", "s", "t", "y", "l", "e", " ", "t", "w", "o">>
           /\ shoots[i].title = <<"S", "t", "r", "e", "e", "t", " ", "S", "t", "y", "l", "e", " ",
                               "T", "w", "o">>
           /\ shoots[i].header = <<"C", "r", "e", "a", "t", "i", "v", "e", " ", "S", "h", "o",
                                "o", "t">>

-----------------------------------------------------------------------------
\* Properties of the route slug (checked under SpecPath).

\* The words of a folder suffix: lower-cased, each & read as the word "and",
\* cut at every run of characters outside a-z and 0-9.
SlugWords(suffix) ==
    LET text == ReplaceAmpersand(toLowerCase(suffix))
    IN  WordsFrom(text, [i \in DOMAIN text |-> IsSlugChar(text[i])], 1)

LifestyleShoot ==
    <<"l", "i", "f", "e", "s", "t", "y", "l", "e", "-", "s", "h", "o", "o", "t">>

\* C16: the routeSlug of a folder suffix is the suffix lower-cased, with each
\* & replaced by " and ", each maximal run of characters outside a-z and 0-9
\* replaced by one hyphen and the hyphens at both ends removed, that is, its
\* words joined by single hyphens; so it holds only a-z, 0-9 and hyphens,
\* does not start or end with a hyphen and has no two adjacent hyphens
\* (the suffix lifestyle-shoot gives lifestyle-shoot).
C16_RouteSlugShape ==
    applied = <<"toRouteSlug">> =>
        /\ value = Join(SlugWords(input), <<"-">>)
        /\ \A i \in DOMAIN value : IsLower(value[i]) \/ IsDigit(value[i]) \/ value[i] = "-"
        /\ value # <<>> => value[1] # "-" /\ value[Len(value)] # "-"
        /\ \A i \in 1..(Len(value) - 1) : ~(value[i] = "-" /\ value[i + 1] = "-")
        /\ toRouteSlug(LifestyleShoot) = LifestyleShoot

\* C16 witness: a suffix that starts with a hyphen and holds a capital and an
\* ampersand, and the routeSlug made from it.
C16_Witness ==
    /\ applied = <<"toRouteSlug">>
    /\ input[1] = "-"
    /\ "B" \in Range(input)
    /\ "&" \in Range(input)
    /\ Len(value) > Len(input)

-----------------------------------------------------------------------------
\* Properties of image loading (checked under SpecProbe and SpecLazy).

\* Every project's probe has given its entry.
AllProbed == \A i \in DOMAIN probes : probes[i].phase = "done"

\* C18: a loader that rejects affects its own slot only.  A slot whose
\* loader rejected shows no image, and any other slot whose loader resolved
\* shows that loader's image.  In the orientation probe, once every project
\* is probed (the App still mounted) the orientations are recorded for all of
\* them: "portrait" for a
\* project whose cover loader rejected, and for a project whose probe image
\* loaded the orientation of that image.
C18_FailureStaysLocal ==
    /\ \A s \in DOMAIN slots :
           slots[s].outcome = "rejected" =>
               /\ slots[s].src = Null
               /\ \A t \in DOMAIN slots \ {s} :
                      slots[t].outcome = "resolved"
                          => slots[t].src = ResolvedSrc(slots[t].loader)
    /\ (AllProbed /\ isMounted) =>
           /\ DOMAIN workOrientations = {shoots[i].id : i \in DOMAIN shoots}
           /\ \A i \in DOMAIN shoots :
                  /\ probes[i].outcome = "rejected"
                         => workOrientations[shoots[i].id] = "portrait"
                  /\ probes[i].outcome = "onload"
                         => workOrientations[shoots[i].id] =
                                (IF probes[i].naturalWidth > probes[i].naturalHeight
                                 THEN "landscape" ELSE "portrait")

\* C18 witness: one slot's loader rejected and the slot is empty while the
\* other slot shows its image; one cover loader rejected in the probe and the
\* other project is recorded as landscape.
C18_Witness ==
    /\ \E s, t \in DOMAIN slots :
           /\ slots[s].outcome = "rejected"
           /\ slots[s].src = Null
           /\ slots[t].outcome = "resolved"
           /\ slots[t].src # Null
    /\ AllProbed
    /\ workOrientations # <<>>
    /\ \E i, j \in DOMAIN shoots :
           /\ probes[i].outcome = "rejected"
           /\ workOrientations[shoots[i].id] = "portrait"
           /\ workOrientations[shoots[j].id] = "landscape"

\* C19: the result of a loader that settles after its slot was given another
\* loader, or was unmounted, is never applied to the slot.
C19_LateResultDiscarded ==
    \A s \in DOMAIN slots : slots[s].lateResult # "applied"

\* C19 witness: a slot was given another loader, shows that loader's image,
\* and the earlier loader settled afterwards and was discarded.
C19_Witness ==
    /\ calls = <<>>
    /\ \E s \in DOMAIN slots :
           /\ slots[s].mounted
           /\ slots[s].lateResult = "discarded"
           /\ slots[s].outcome = "resolved"
           /\ slots[s].overtook
           /\ slots[s].src = ResolvedSrc(slots[s].loader)

\* C20: once every loader called has settled, each mounted slot whose
\* current loader was called shows that loader's image if it resolved and no
\* image if it rejected, in whatever order the loaders settled.
C20_FinalImageIsOwnResult ==
    calls = <<>> =>
        \A s \in DOMAIN slots :
            /\ slots[s].outcome = "resolved" => slots[s].src = ResolvedSrc(slots[s].loader)
            /\ slots[s].outcome = "rejected" => slots[s].src = Null

\* C20 witness: two slots with different loaders, the loader called later
\* settled first, and both have settled.
C20_Witness ==
    /\ calls = <<>>
    /\ \E s, t \in DOMAIN slots :
           /\ slots[s].loader # slots[t].loader
           /\ slots[s].overtook
           /\ slots[s].outcome = "resolved"
           /\ slots[t].outcome \in {"resolved", "rejected"}
           /\ slots[s].lateResult = "none"
           /\ slots[t].lateResult = "none"

-----------------------------------------------------------------------------
\* Further properties of the router (checked under Spec).

C23_PendingSectionIsCleared ==
    (lastNav.kind = "goToSection" /\ pendingSectionId # Null)
        ~> (\/ pendingSectionId = Null /\ timeoutId = Null
            \/ lastNav.kind # "goToSection")

C23_Witness ==
    /\ lastNav.kind = "goToSection"
    /\ pendingSectionId # Null
    /\ timeoutId = pendingSectionId
    /\ pathname = RootPath
    /\ Len(history) >= 2

\* The segment of the stored path is malformed percent-encoding.
MalformedSegment ==
    /\ PortfolioMatch(pathname) # Null
    /\ decodeURIComponent(PortfolioMatch(pathname)) = URIError

\* C24: getProjectSlugFromPathname never yields an error; for a path
\* /portfolio/<segment> whose segment is malformed percent-encoding the slug
\* is the raw segment in lower case and the view is "Project Not Found".
C24_MalformedSegmentIsNotFound ==
    /\ routeProjectSlug # URIError
    /\ MalformedSegment =>
           /\ routeProjectSlug = toLowerCase(PortfolioMatch(pathname))
           /\ selectedProject = 0
           /\ RouteView = "notFound"

C24_Witness ==
    /\ MalformedSegment
    /\ lastNav.kind = "popstate"
    /\ RouteView = "notFound"

\* C25: a step changes the history only when the normalized target (the path
\* then stored) differs from the normalized current location, and a goHome,
\* goToSection or openProject to the path of the current location leaves the
\* history and the position in it unchanged.
C25_HistoryWrittenOnlyOnChange ==
    [][/\ history' # history =>
              normalizePathname(windowLocationPathname) # pathname'
       /\ (/\ lastNav' # lastNav \/ scrollCmd'.by \in {"goHome", "openProject"}
           /\ lastNav'.kind \in {"goHome", "goToSection", "openProject"}
           /\ pathname' = normalizePathname(windowLocationPathname))
              => UNCHANGED <<history, historyIndex>>]_vars

C25_Witness ==
    /\ lastNav.kind = "goHome"
    /\ history = <<RootPath>>
    /\ historyIndex = 1

\* C29: goToSection("work") called on a path that selects a project sets
\* activeWorkIndex to that project's position in shoots, and the path becomes
\* the root; a goToSection call for another section, on the not-found page,
\* or on the root leaves activeWorkIndex as it is.
C29_WorkSectionSetsSliderIndex ==
    [][\A sectionId \in SectionIds, present \in BOOLEAN :
           goToSection(sectionId, present) =>
               IF sectionId = <<"work">> /\ pathname # RootPath /\ selectedProject # 0
               THEN /\ activeWorkIndex' = selectedProject - 1
                    /\ pathname' = RootPath
               ELSE activeWorkIndex' = activeWorkIndex]_vars

\* C29 witness: the work section was asked for on the page of the project at
\* position 1 of three; the slider index is 1, the section is pending and the
\* path is the root.
C29_Witness ==
    /\ lastNav = [kind |-> "goToSection", section |-> <<"work">>]
    /\ pendingSectionId = <<"work">>
    /\ pathname = RootPath
    /\ activeWorkIndex = 1
    /\ historyIndex >= 2
    /\ ComputeSelectedProject(shoots, getProjectSlugFromPathname(
           normalizePathname(history[historyIndex - 1]))) = 2

\* C30: without a hero entry in the asset mapping App renders nothing, on
\* every path and whatever the path selects, and no handler of the page can
\* have been called.
C30_NothingWithoutHero ==
    HERO_PATH \notin Range(photoLoaders) =>
        /\ AppRenders = "nothing"
        /\ lastNav.kind = "load"
        /\ history = <<windowLocationPathname>>

\* C30 witness: no hero entry, projects exist, the path selects one of them,
\* and nothing is rendered.
C30_Witness ==
    /\ HERO_PATH \notin Range(photoLoaders)
    /\ Len(shoots) > 0
    /\ selectedProject # 0
    /\ RouteView = "project"
    /\ AppRenders = "nothing"

-----------------------------------------------------------------------------
\* Properties of the slider (checked under SpecSwiper).

\* The last function or handler applied in a run of the slider.
LastApplied == IF applied = <<>> THEN "" ELSE applied[Len(applied)]

\* C27: getValidSwiperIndex returns -1 exactly when there are no projects and
\* otherwise an index in 0..N-1, for every integer (or missing) realIndex,
\* activeIndex and activeWorkIndex; so are the index of safeWorkIndex, the
\* index handleWorkSlideChange stores, and the project openActiveProject and
\* the tap handler open is the one at that index of the list.
C27_SwiperIndexInRange ==
    LET N == Len(shoots)
    IN  /\ LastApplied = "getValidSwiperIndex" =>
               /\ value = -1 <=> N = 0
               /\ N > 0 => value \in 0..(N - 1)
        /\ LastApplied = "safeWorkIndex" =>
               /\ N > 0 => value \in 0..(N - 1)
               /\ N = 0 => value = 0
        /\ LastApplied \in HandlerNames =>
               /\ value = -1 <=> N = 0
               /\ N > 0 => value \in 0..(N - 1)
        /\ (LastApplied = "handleWorkSlideChange" /\ N > 0) => activeWorkIndex = value
        /\ lastNav.kind = "openProject" =>
               /\ value \in 0..(N - 1)
               /\ pathname = normalizePathname(getProjectPath(shoots[value + 1].routeSlug))
        /\ N > 0 => activeWorkIndex \in 0..(N - 1) /\ safeWorkIndex \in 0..(N - 1)

\* C27 witness: three projects, a swiper reporting a negative realIndex, and
\* getValidSwiperIndex returned the last project's index.
C27_Witness ==
    /\ Len(shoots) = 3
    /\ applied = <<"getValidSwiperIndex">>
    /\ input.swiper.exists
    /\ input.swiper.realIndex \in {Number(-1), Number(-4)}
    /\ value = 2

-----------------------------------------------------------------------------
\* Further properties of the image loading (checked under SpecProbe and SpecLazy).

\* C26: the orientations are published in one single update, made when the
\* last probe settles: while any project's probe has not settled no project
\* has a recorded orientation, the one update records all projects at once,
\* and once the App is unmounted no orientation is recorded any more.
\* Checked under SpecProbe.
C26_OrientationsPublishedOnce ==
    /\ [](~AllProbed => workOrientations = <<>>)
    /\ [][workOrientations' # workOrientations =>
              /\ isMounted
              /\ workOrientations = <<>>
              /\ ~AllProbed
              /\ PromiseAllFulfils(probes')
              /\ DOMAIN workOrientations' = {shoots[i].id : i \in DOMAIN shoots}]_vars
    /\ [][~isMounted => (~isMounted' /\ workOrientations' = workOrientations)]_vars

\* C26 witness: the App was unmounted before the last probe settled, every
\* probe has settled since, and no orientation is recorded.
C26_Witness ==
    /\ ~isMounted
    /\ AllProbed
    /\ \E i \in DOMAIN probes : probes[i].outcome = "onload"
    /\ workOrientations = <<>>

\* C28: a LazyPhoto's loading is enabled exactly when it is a priority image,
\* or there was no IntersectionObserver when it was mounted, or its observer
\* reported it intersecting; its loader is invoked only once loading is
\* enabled; and loading, once enabled, is never disabled.  Checked under
\* SpecLazy.
C28_LoaderOnlyOnceEnabled ==
    /\ [](\A s \in DOMAIN slots :
              /\ slots[s].shouldLoad <=>
                     (slots[s].priority \/ ~hasIntersectionObserver \/ slots[s].intersected)
              /\ slots[s].outcome # "none" => slots[s].shouldLoad
              /\ slots[s].lateResult # "none" => slots[s].shouldLoad)
    /\ [](\A k \in DOMAIN calls : slots[calls[k].slot].shouldLoad)
    /\ [][\A s \in DOMAIN slots : slots[s].shouldLoad => slots'[s].shouldLoad]_vars

\* C28 witness: a slot that is no priority image, mounted where there is an
\* IntersectionObserver, was reported intersecting, and its loader, called
\* after that, resolved.
C28_Witness ==
    \E s \in DOMAIN slots :
        /\ ~slots[s].priority
        /\ hasIntersectionObserver
        /\ slots[s].intersected
        /\ slots[s].shouldLoad
        /\ slots[s].outcome = "resolved"
        /\ slots[s].src = ResolvedSrc(slots[s].loader)

-----------------------------------------------------------------------------
\* Further properties of the grouper (checked under SpecGroup).

\* The year, month and day fields of a dated folder name, as numbers.
WrittenDate(folderName) ==
    <<NumberOf(FolderYear(folderName)), NumberOf(FolderMonth(folderName)),
      NumberOf(FolderDay(folderName))>>

\* The fields denote a day of the calendar.
IsCalendarDay(date) ==
    /\ date[2] \in 1..12
    /\ date[3] >= 1
    /\ date[3] <= MonthLengths(date[1])[date[2]]

\* Date a is written later than date b: year, then month, then day.
WrittenLater(a, b) ==
    \/ a[1] > b[1]
    \/ a[1] = b[1] /\ a[2] > b[2]
    \/ a[1] = b[1] /\ a[2] = b[2] /\ a[3] > b[3]

\* C22: every folder that is ordered has a valid date (its month and day
\* fields denote a day of the calendar), two folders whose date fields differ
\* are not ordered by the same date value, and a folder with a later-written
\* date has the greater date value, so it stands before the other.
C22_FolderDatesValid ==
    applied = <<"grouping">> =>
        /\ \A i \in DOMAIN shoots : IsCalendarDay(WrittenDate(shoots[i].id))
        /\ \A i, j \in DOMAIN shoots :
               WrittenLater(WrittenDate(shoots[i].id), WrittenDate(shoots[j].id))
                   => /\ getFolderDateValue(shoots[i].id) > getFolderDateValue(shoots[j].id)
                      /\ i < j

====
